---- MODULE Spec2Model ----
(***************************************************************************)
(* Rubiks-Slider puzzle engine (src/ui/src/Board.jsx, lines 232-420) and   *)
(* the callers of it in src/ui/src/App.jsx and src/unnamed/part_000.       *)
(*                                                                         *)
(* JavaScript objects are modelled on an explicit heap, because applyMove  *)
(* mutates row arrays in place and deepCopyBoard is about aliasing:        *)
(*   heap.rows[a]  : the row array at address a, a function from its own   *)
(*                   integer property keys to tile addresses (0 stands     *)
(*                   for the JavaScript value undefined);                  *)
(*   heap.tiles[a] : the tile object {id, letter} at address a.            *)
(* A board (the outer array, never mutated after it is built) is a         *)
(* function from 0..n-1 to row addresses.  A letter is its UTF-16 code     *)
(* unit (String.fromCharCode(65 + r) is 65 + r).                           *)
(***************************************************************************)
EXTENDS Integers, Sequences, FiniteSets, TLC

VARIABLES heap, board, copy, hist, solved, VERSION, prevCall, lastCall,
          link, query, app, trace, timers, play

vars == <<heap, board, copy, hist, solved, VERSION, prevCall, lastCall,
          link, query, app, trace, timers, play>>

\* how the share link was made, the URL of the page, the React state of App,
\* and what its mount effect did
appVars == <<link, query, app, trace>>

\* the timeouts of window.setTimeout that did not fire yet, and what the
\* player did last
playVars == <<timers, play>>

\* the module constant VERSION and the two latest calls of the generator
shuffleVars == <<VERSION, prevCall, lastCall>>

(***************************************************************************)
(* Bounds of the model.                                                    *)
(***************************************************************************)
\* moves are explored on boards of side 2..MaxMoveSize
MaxMoveSize == 3
\* number of applyMove / deepCopyBoard calls in one run
MaxMoves == 3
\* number of deepCopyBoard calls in one run
MaxCopies == 1
\* length of the sequences handed to applySequence
MaxSeqLen == 2
\* number of moves handed to the engine without validation in one run
MaxUncheckedMoves == 2
\* sequences are generated for boards of side 2..MaxGenSize
MaxGenSize == 3
\* explicit move counts handed to generateDeterministicSequence: 0..MaxExplicit
MaxExplicit == 1
\* salts handed to generateDeterministicSequence: "", "_salt1" .. `_salt${MaxSalt}`
MaxSalt == 1
\* the page is loaded at minute 0..MaxMinute of the hour
MaxMinute == 1
\* share payloads are of size 2..MaxShareSize
MaxShareSize == 2
\* number of moves in a valid share payload
MaxShareLen == 2
\* number of characters a share link loses at its end
MaxCut == 1

\* a session: moves played on a puzzle whose limit is above MaxLimit, moves
\* waiting in the queue, callbacks pending when the player acts
MaxPlayed == 2
MaxLimit == 8
MaxQueue == 2
MaxTimers == 2
\* levels played in blind or multi-move mode, wrong predictions in a row
MaxQueuedLevels == 1
MaxWrong == 1

\* clicks on New in a session of src/unnamed/part_000
MaxNews == 2

(***************************************************************************)
(* Program constants.                                                      *)
(***************************************************************************)
\* parseQuery clamps the size to [2, 12]
MinSize == 2
MaxSize == 12

(***************************************************************************)
(* JavaScript arrays and undefined.                                        *)
(***************************************************************************)
\* the address that stands for undefined (an absent array element)
Undefined == 0

\* A JavaScript array: items are the elements 0..length-1 (element k is
\* items[k + 1]); neg is <<>> or <<v>>, the value of the own property "-1"
\* that an assignment arr[-1] = v creates (it is not an element and does not
\* count in length).
EmptyArray == [items |-> <<>>, neg |-> <<>>]

\* arr.length
jsLength(arr) == Len(arr.items)

\* arr[k]: undefined when k is not an own key
Get(arr, k) ==
    IF k >= 0 /\ k < Len(arr.items) THEN arr.items[k + 1]
    ELSE IF k = -1 /\ arr.neg # <<>> THEN arr.neg[1]
    ELSE Undefined

\* arr[k] = v, for the keys -1..length: the index length makes the array one
\* element longer
Put(arr, k, v) ==
    CASE k >= 0 /\ k < Len(arr.items) -> [arr EXCEPT !.items[k + 1] = v]
      [] k = Len(arr.items)           -> [arr EXCEPT !.items = Append(@, v)]
      [] k = -1                       -> [arr EXCEPT !.neg = <<v>>]

\* arr.push(v)
push(arr, v) == Put(arr, jsLength(arr), v)

\* TLC defers the evaluation of an operator's arguments until they are read.
\* A loop that threads its state through a recursion reads it in its guard
\* with Evaluated, so that the state is computed at every iteration and not
\* as one nested expression at the end.
Evaluated(x) == x = x

EmptyHeap == [rows |-> <<>>, tiles |-> <<>>]

\* F(x) with x computed first, once: the way a statement reads the result of
\* the statement before it
Then(x, F(_)) == CHOOSE r \in {F(v) : v \in {x}} : TRUE

(***************************************************************************)
(* Board helpers.                                                          *)
(***************************************************************************)
solvedLettersSwapped(size) ==
    [r \in 0..(size - 1) |-> [c \in 0..(size - 1) |-> 65 + c]]

solvedLetters(size) ==
    [r \in 0..(size - 1) |-> [c \in 0..(size - 1) |-> 65 + r]]

\* row.push({id: id++, letter: lettersGrid[r][c]}); st = [heap, row, id]
buildCell(st, lettersGrid, r, c) ==
    Then(Append(st.heap.tiles, [id |-> st.id, letter |-> lettersGrid[r][c]]),
         LAMBDA tiles2 :
    [heap |-> [st.heap EXCEPT !.tiles = tiles2],
     row  |-> push(st.row, Len(tiles2)),
     id   |-> st.id + 1])

\* inner loop of buildTileBoard, for the columns c..to-1 (run as those before
\* the middle and then those from the middle on, which keeps the evaluation
\* shallow; the other loops are written the same way)
RECURSIVE buildCols(_, _, _, _, _)
buildCols(st, lettersGrid, r, c, to) ==
    IF c >= to THEN st
    ELSE IF to - c = 1 THEN buildCell(st, lettersGrid, r, c)
    ELSE Then(buildCols(st, lettersGrid, r, c, c + ((to - c) \div 2)), LAMBDA half :
         buildCols(half, lettersGrid, r, c + ((to - c) \div 2), to))

\* body of the outer loop of buildTileBoard; st = [heap, ref, id]
buildRow(st, size, lettersGrid, r) ==
    Then(buildCols([heap |-> st.heap, row |-> EmptyArray, id |-> st.id],
                   lettersGrid, r, 0, size), LAMBDA inner :
    Then(Append(inner.heap.rows, inner.row), LAMBDA rows2 :
    [heap |-> [inner.heap EXCEPT !.rows = rows2],
     ref  |-> push(st.ref, Len(rows2)),
     id   |-> inner.id]))

\* outer loop of buildTileBoard, for the rows r..to-1
RECURSIVE buildRows(_, _, _, _, _)
buildRows(st, size, lettersGrid, r, to) ==
    IF r >= to THEN st
    ELSE IF to - r = 1 THEN buildRow(st, size, lettersGrid, r)
    ELSE Then(buildRows(st, size, lettersGrid, r, r + ((to - r) \div 2)), LAMBDA half :
         buildRows(half, size, lettersGrid, r + ((to - r) \div 2), to))

\* buildTileBoard(size, lettersGrid) on heap H: [heap, ref]
buildTileBoard(H, size, lettersGrid) ==
    Then([heap |-> H, ref |-> EmptyArray, id |-> 1], LAMBDA st0 :
    Then(buildRows(st0, size, lettersGrid, 0, size), LAMBDA st :
    [heap |-> st.heap, ref |-> st.ref]))

\* (cell) => ({id: cell.id, letter: cell.letter}) on the cell c of the row R;
\* st = [heap, row, threw]
copyCell(st, R, c) ==
    IF st.threw THEN st
    ELSE IF Get(R, c) = Undefined THEN [st EXCEPT !.threw = TRUE]
    ELSE Then(st.heap.tiles[Get(R, c)], LAMBDA cell :
         Then(Append(st.heap.tiles, [id |-> cell.id, letter |-> cell.letter]),
              LAMBDA tiles2 :
         [heap  |-> [st.heap EXCEPT !.tiles = tiles2],
          row   |-> Put(st.row, c, Len(tiles2)),
          threw |-> FALSE]))

\* row.map(..) for the cells c..to-1
RECURSIVE copyCells(_, _, _, _)
copyCells(st, R, c, to) ==
    IF st.threw \/ c >= to THEN st
    ELSE IF to - c = 1 THEN copyCell(st, R, c)
    ELSE Then(copyCells(st, R, c, c + ((to - c) \div 2)), LAMBDA half :
         copyCells(half, R, c + ((to - c) \div 2), to))

\* (row) => row.map(..) on the row r of the board b; st = [heap, ref, threw]
copyRow(st, b, r) ==
    IF st.threw THEN st
    ELSE Then(st.heap.rows[Get(b, r)], LAMBDA R :
         Then(copyCells([heap |-> st.heap, row |-> EmptyArray, threw |-> FALSE],
                        R, 0, jsLength(R)), LAMBDA inner :
         IF inner.threw THEN [st EXCEPT !.threw = TRUE]
         ELSE Then(Append(inner.heap.rows, inner.row), LAMBDA rows2 :
              [heap  |-> [inner.heap EXCEPT !.rows = rows2],
               ref   |-> Put(st.ref, r, Len(rows2)),
               threw |-> FALSE])))

\* board.map(..) for the rows r..to-1
RECURSIVE copyRows(_, _, _, _)
copyRows(st, b, r, to) ==
    IF st.threw \/ r >= to THEN st
    ELSE IF to - r = 1 THEN copyRow(st, b, r)
    ELSE Then(copyRows(st, b, r, r + ((to - r) \div 2)), LAMBDA half :
         copyRows(half, b, r + ((to - r) \div 2), to))

\* a copy that keeps the source's row arrays
deepCopyBoardShallow(H, b) == [heap |-> H, ref |-> b, threw |-> FALSE]

\* deepCopyBoard(board) on heap H: [heap, ref, threw]; threw is the TypeError
\* of reading .id of an undefined cell, and then nothing reachable changed
deepCopyBoard(H, b) ==
    Then([heap |-> H, ref |-> EmptyArray, threw |-> FALSE], LAMBDA st0 :
    Then(b, LAMBDA src :
    Then(copyRows(st0, src, 0, jsLength(src)), LAMBDA st :
    IF st.threw THEN [heap |-> st0.heap, ref |-> EmptyArray, threw |-> TRUE]
    ELSE st)))

\* inner loop of isSolved
RECURSIVE solvedCols(_, _, _, _, _)
solvedCols(H, b, size, r, c) ==
    IF c < size
    THEN IF H.tiles[Get(H.rows[Get(b, r)], c)].letter # 65 + r THEN FALSE
         ELSE solvedCols(H, b, size, r, c + 1)
    ELSE TRUE

\* outer loop of isSolved
RECURSIVE solvedRows(_, _, _, _)
solvedRows(H, b, size, r) ==
    IF r < size
    THEN IF ~solvedCols(H, b, size, r, 0) THEN FALSE
         ELSE solvedRows(H, b, size, r + 1)
    ELSE TRUE

\* a check that looks at the first column only
isSolvedFirstColumn(H, b) ==
    \A r \in 0..(jsLength(b) - 1) : H.tiles[Get(H.rows[Get(b, r)], 0)].letter = 65 + r

isSolved(H, b) == solvedRows(H, b, jsLength(b), 0)

(***************************************************************************)
(* applyMove: one-cell wrap-around shift, in place.                        *)
(***************************************************************************)
\* for (let c = 0; c < n - 1; c++) board[idx][c] = board[idx][c + 1];
RECURSIVE rowLeftLoop(_, _, _)
rowLeftLoop(R, c, n) ==
    IF c < n - 1 THEN rowLeftLoop(Put(R, c, Get(R, c + 1)), c + 1, n) ELSE R

\* for (let c = n - 1; c > 0; c--) board[idx][c] = board[idx][c - 1];
RECURSIVE rowRightLoop(_, _)
rowRightLoop(R, c) ==
    IF c > 0 THEN rowRightLoop(Put(R, c, Get(R, c - 1)), c - 1) ELSE R

\* the left branch without the saved first tile: the wrap reads the
\* already shifted row
rowLeftNoSave(R, n) ==
    LET shifted == rowLeftLoop(R, 0, n)
    IN Put(shifted, n - 1, Get(shifted, 0))

\* the left branch shifting the wrong way
rowLeftAsRight(R, n) ==
    LET last == Get(R, n - 1)
    IN Put(rowRightLoop(R, n - 1), 0, last)

\* the left branch writing the saved tile one place past the end of the row
rowLeftPastEnd(R, n) ==
    LET first == Get(R, 0)
    IN Put(rowLeftLoop(R, 0, n), n, first)

\* row, left: lines 398-400
rowLeft(R, n) ==
    LET first == Get(R, 0)
    IN Put(rowLeftLoop(R, 0, n), n - 1, first)

\* the right branch without the wrap of the last tile to column 0
rowRightNoWrap(R, n) == rowRightLoop(R, n - 1)

\* row, right: lines 402-404
rowRight(R, n) ==
    LET last == Get(R, n - 1)
    IN Put(rowRightLoop(R, n - 1), 0, last)

\* for (let r = 0; r < n - 1; r++) board[r][idx] = board[r + 1][idx];
RECURSIVE colUpLoop(_, _, _, _, _)
colUpLoop(rows, b, idx, r, n) ==
    IF r < n - 1
    THEN colUpLoop([rows EXCEPT ![Get(b, r)] = Put(@, idx, Get(rows[Get(b, r + 1)], idx))],
                   b, idx, r + 1, n)
    ELSE rows

\* for (let r = n - 1; r > 0; r--) board[r][idx] = board[r - 1][idx];
RECURSIVE colDownLoop(_, _, _, _)
colDownLoop(rows, b, idx, r) ==
    IF r > 0
    THEN colDownLoop([rows EXCEPT ![Get(b, r)] = Put(@, idx, Get(rows[Get(b, r - 1)], idx))],
                     b, idx, r - 1)
    ELSE rows

\* column, up: lines 408-410
colUp(rows, b, idx, n) ==
    LET first == Get(rows[Get(b, 0)], idx)
        shifted == colUpLoop(rows, b, idx, 0, n)
    IN [shifted EXCEPT ![Get(b, n - 1)] = Put(@, idx, first)]

\* the down branch without the wrap of the last tile to row 0
colDownNoWrap(rows, b, idx, n) == colDownLoop(rows, b, idx, n - 1)

\* column, down: lines 412-414
colDown(rows, b, idx, n) ==
    LET last == Get(rows[Get(b, n - 1)], idx)
        shifted == colDownLoop(rows, b, idx, n - 1)
    IN [shifted EXCEPT ![Get(b, 0)] = Put(@, idx, last)]

\* applyMove(board, move) on heap H: [heap, threw].  board[idx] is undefined
\* for an idx outside 0..n-1, and reading [0] or [n - 1] of undefined throws a
\* TypeError before anything is written; a column access board[r][idx] never
\* throws, whatever idx is.
applyMove(H, b, move) ==
    LET n == jsLength(b)
        idx == move.index - 1
    IN IF move.type = "row"
       THEN IF move.direction = "left"
            THEN IF Get(b, idx) = Undefined THEN [heap |-> H, threw |-> TRUE]
                 ELSE [heap  |-> [H EXCEPT !.rows[Get(b, idx)] = rowLeft(@, n)],
                       threw |-> FALSE]
            ELSE IF move.direction = "right"
            THEN IF Get(b, idx) = Undefined THEN [heap |-> H, threw |-> TRUE]
                 ELSE [heap  |-> [H EXCEPT !.rows[Get(b, idx)] = rowRight(@, n)],
                       threw |-> FALSE]
            ELSE [heap |-> H, threw |-> FALSE]
       ELSE IF move.type = "column"
       THEN IF move.direction = "up"
            THEN [heap |-> [H EXCEPT !.rows = colUp(@, b, idx, n)], threw |-> FALSE]
            ELSE IF move.direction = "down"
            THEN [heap |-> [H EXCEPT !.rows = colDown(@, b, idx, n)], threw |-> FALSE]
            ELSE [heap |-> H, threw |-> FALSE]
       ELSE [heap |-> H, threw |-> FALSE]

\* applySequence replaying the moves from the last to the first
RECURSIVE applySequenceReversed(_, _, _)
applySequenceReversed(H, b, seq) ==
    IF seq = <<>> THEN [heap |-> H, threw |-> FALSE]
    ELSE IF Len(seq) = 1 THEN applyMove(H, b, seq[1])
    ELSE Then(applySequenceReversed(H, b, SubSeq(seq, (Len(seq) \div 2) + 1, Len(seq))),
              LAMBDA later :
         IF later.threw THEN later
         ELSE applySequenceReversed(later.heap, b, SubSeq(seq, 1, Len(seq) \div 2)))

\* for (const m of seq) applyMove(board, m): [heap, threw]; an exception of
\* applyMove leaves the loop with the moves before it applied.  The moves are
\* run as those of the first half and then those of the second, which keeps
\* the evaluation shallow
RECURSIVE applySequence(_, _, _)
applySequence(H, b, seq) ==
    IF seq = <<>> THEN [heap |-> H, threw |-> FALSE]
    ELSE IF Len(seq) = 1 THEN applyMove(H, b, seq[1])
    ELSE Then(applySequence(H, b, SubSeq(seq, 1, Len(seq) \div 2)), LAMBDA first :
         IF first.threw THEN first
         ELSE applySequence(first.heap, b, SubSeq(seq, (Len(seq) \div 2) + 1, Len(seq))))

(***************************************************************************)
(* Deterministic RNG: hash32 + mulberry32.                                 *)
(*                                                                         *)
(* A 32-bit value is a record [hi, lo] of two 16-bit halves (TLC's own     *)
(* integers are 32-bit signed and cannot hold it).  A string is the        *)
(* sequence of its UTF-16 code units.                                      *)
(***************************************************************************)
Half == 65536

\* bitwise operators on values below 16, bit by bit
RECURSIVE XorBits(_, _)
XorBits(x, y) ==
    IF x = 0 THEN y
    ELSE IF y = 0 THEN x
    ELSE ((x + y) % 2) + 2 * XorBits(x \div 2, y \div 2)

RECURSIVE OrBits(_, _)
OrBits(x, y) ==
    IF x = 0 THEN y
    ELSE IF y = 0 THEN x
    ELSE (IF x % 2 = 1 \/ y % 2 = 1 THEN 1 ELSE 0) + 2 * OrBits(x \div 2, y \div 2)

XorTable == [x \in 0..15 |-> [y \in 0..15 |-> XorBits(x, y)]]

OrTable == [x \in 0..15 |-> [y \in 0..15 |-> OrBits(x, y)]]

\* bitwise operators on 16-bit values, four bits at a time
Xor16(x, y) ==
    XorTable[x % 16][y % 16]
    + 16 * XorTable[(x \div 16) % 16][(y \div 16) % 16]
    + 256 * XorTable[(x \div 256) % 16][(y \div 256) % 16]
    + 4096 * XorTable[x \div 4096][y \div 4096]

Or16(x, y) ==
    OrTable[x % 16][y % 16]
    + 16 * OrTable[(x \div 16) % 16][(y \div 16) % 16]
    + 256 * OrTable[(x \div 256) % 16][(y \div 256) % 16]
    + 4096 * OrTable[x \div 4096][y \div 4096]

\* x ^ y
Xor32(x, y) == [hi |-> Xor16(x.hi, y.hi), lo |-> Xor16(x.lo, y.lo)]

\* x | k for a constant k below 2^16
OrSmall(x, k) == [hi |-> x.hi, lo |-> Or16(x.lo, k)]

\* ToInt32 / ToUint32 of the sum of two 32-bit values
Add32(x, y) ==
    [hi |-> (x.hi + y.hi + ((x.lo + y.lo) \div Half)) % Half,
     lo |-> (x.lo + y.lo) % Half]

\* x >>> k, 0 < k < 16
Shr32(x, k) ==
    [hi |-> x.hi \div (2 ^ k),
     lo |-> (x.hi % (2 ^ k)) * (2 ^ (16 - k)) + (x.lo \div (2 ^ k))]

\* x << 5 losing the bits that pass from the low half to the high half
Shl5NoCarry(x) ==
    [hi |-> (x.hi * 32) % Half,
     lo |-> (x.lo * 32) % Half]

\* x << 5
Shl5(x) ==
    [hi |-> (x.hi * 32 + (x.lo \div 2048)) % Half,
     lo |-> (x.lo * 32) % Half]

\* the 32-bit product of two 16-bit values
Mul16(x, y) ==
    LET p1 == (x \div 256) * y
        p0 == (x % 256) * y
        lo == (p1 % 256) * 256 + (p0 % Half)
    IN [hi |-> (p1 \div 256) + (p0 \div Half) + (lo \div Half),
        lo |-> lo % Half]

\* Math.imul(x, y): the low 32 bits of the product
imul(x, y) ==
    LET ll == Mul16(x.lo, y.lo)
    IN [hi |-> (ll.hi + Mul16(x.hi, y.lo).lo + Mul16(x.lo, y.hi).lo) % Half,
        lo |-> ll.lo]

\* hash32: h = (((h << 5) + h) ^ str.charCodeAt(i)) >>> 0, from h = 5381
RECURSIVE hash32Loop(_, _, _)
hash32Loop(h, str, i) ==
    IF Evaluated(h) /\ i <= Len(str)
    THEN hash32Loop(Xor32(Add32(Shl5(h), h), [hi |-> 0, lo |-> str[i]]), str, i + 1)
    ELSE h

hash32(str) == hash32Loop([hi |-> 0, lo |-> 5381], str, 1)

\* One call of the closure mulberry32(a) returns: [a, u], the new value of
\* the captured a and the numerator u of the result u / 4294967296.  a is a
\* JavaScript number and `a += 0x6d2b79f5` does not wrap: a.hi grows beyond
\* 16 bits, and the bitwise operators read a modulo 2^32.
mulberry32(a) ==
    LET a2 == [hi |-> a.hi + 27947 + ((a.lo + 31221) \div Half),
               lo |-> (a.lo + 31221) % Half]
        t0 == [hi |-> a2.hi % Half, lo |-> a2.lo]
        t1 == imul(Xor32(t0, Shr32(t0, 15)), OrSmall(t0, 1))
        t2 == Xor32(t1, Add32(t1, imul(Xor32(t1, Shr32(t1, 7)), OrSmall(t1, 61))))
    IN [a |-> a2, u |-> Xor32(t2, Shr32(t2, 14))]

\* Math.floor((u / 4294967296) * k) for 0 < k < 2^15: the product is exact in
\* double precision
FloorScaled(u, k) == (u.hi * k + ((u.lo * k) \div Half)) \div Half

\* rngFromSeedString(seedStr): the state of the generator it wraps
rngFromSeedString(seedStr) == hash32(seedStr)

\* rng.randint(min, max): [a, value]
randintNoMin(a, min, max) ==
    LET r == mulberry32(a)
    IN [a |-> r.a, value |-> FloorScaled(r.u, max - min + 1)]

randint(a, min, max) ==
    LET r == mulberry32(a)
    IN [a |-> r.a, value |-> FloorScaled(r.u, max - min + 1) + min]

\* rng.choice(arr), arr a sequence: [a, value]
choice(a, arr) ==
    LET r == mulberry32(a)
    IN [a |-> r.a, value |-> arr[FloorScaled(r.u, Len(arr)) + 1]]

\* the decimal digits of n, as `${n}` writes them
RECURSIVE StrOfNat(_)
StrOfNat(n) == IF n < 10 THEN <<48 + n>> ELSE Append(StrOfNat(n \div 10), 48 + (n % 10))

\* "ShuffleCount_v"
ShuffleCountPrefix == <<83, 104, 117, 102, 102, 108, 101, 67, 111, 117, 110, 116, 95, 118>>

\* "Benchmark_v"
BenchmarkPrefix == <<66, 101, 110, 99, 104, 109, 97, 114, 107, 95, 118>>

\* "_"
Underscore == <<95>>

\* the salt of the k-th New of a session, `_salt${k}`; no salt ("") for k = 0
Salt(k) == IF k = 0 THEN <<>> ELSE <<95, 115, 97, 108, 116>> \o StrOfNat(k)

\* the moves argument left out (null)
NoCount == -1

\* n.toString().padStart(2, "0")
pad(n) == IF Len(StrOfNat(n)) < 2 THEN <<48>> \o StrOfNat(n) ELSE StrOfNat(n)

\* makeVersionNow(), d being the fields of new Date(): MMDDYYYYHHmm
makeVersionNow(d) ==
    pad(d.month + 1) \o pad(d.date) \o StrOfNat(d.fullYear) \o pad(d.hours) \o pad(d.minutes)

\* the local times at which the module is loaded: 24 May 2025, from 01:00
Clocks ==
    {[month |-> 4, date |-> 24, fullYear |-> 2025, hours |-> 1, minutes |-> m] :
        m \in 0..MaxMinute}

\* getVersionFromQuery(search): the version parameter when it is twelve
\* digits (/^\d{12}$/), "" for null
getVersionFromQuery(search) ==
    IF Len(search.version) = 12 /\ \A i \in 1..12 : search.version[i] \in 48..57
    THEN search.version
    ELSE <<>>

\* getDeterministicShuffleCount(size), VERSION being version
getDeterministicShuffleCount(version, size) ==
    LET rng == rngFromSeedString(ShuffleCountPrefix \o version \o Underscore \o StrOfNat(size))
    IN randint(rng, size, size * size * 2).value

\* the loop running once more than count: i <= count
RECURSIVE generateLoopInclusive(_, _, _, _)
generateLoopInclusive(st, size, count, i) ==
    IF Evaluated(st) /\ i <= count
    THEN LET type == choice(st.a, <<"row", "column">>)
             index == randint(type.a, 1, size)
             direction == IF type.value = "row"
                          THEN choice(index.a, <<"left", "right">>)
                          ELSE choice(index.a, <<"up", "down">>)
         IN generateLoopInclusive([a   |-> direction.a,
                                   seq |-> Append(st.seq, [type      |-> type.value,
                                                           index     |-> index.value,
                                                           direction |-> direction.value])],
                                  size, count, i + 1)
    ELSE st

\* one pass of the loop body of generateDeterministicSequence; st = [a, seq]
generateStep(st, size) ==
    Then(choice(st.a, <<"row", "column">>), LAMBDA type :
    Then(randint(type.a, 1, size), LAMBDA index :
    Then(IF type.value = "row"
         THEN choice(index.a, <<"left", "right">>)
         ELSE choice(index.a, <<"up", "down">>), LAMBDA direction :
    [a   |-> direction.a,
     seq |-> Append(st.seq, [type      |-> type.value,
                             index     |-> index.value,
                             direction |-> direction.value])])))

\* the loop of generateDeterministicSequence, for (let i = ..; i < count;
\* i++), from i on; the passes i..count-1 are run as those before the middle
\* and then those from the middle on, which keeps the evaluation shallow
RECURSIVE generateLoop(_, _, _, _)
generateLoop(st, size, count, i) ==
    IF i >= count THEN st
    ELSE IF count - i = 1 THEN generateStep(st, size)
    ELSE Then(generateLoop(st, size, i + ((count - i) \div 2), i), LAMBDA half :
         generateLoop(half, size, count, i + ((count - i) \div 2)))

\* a generator that draws the count from the salted stream
generateDeterministicSequenceSaltedCount(version, size, moves, salt) ==
    LET rng == rngFromSeedString(BenchmarkPrefix \o version \o Underscore
                                 \o StrOfNat(size) \o salt)
        count == IF moves # NoCount THEN [a |-> rng, value |-> moves]
                 ELSE randint(rng, size, size * size * 2)
    IN generateLoop([a |-> count.a, seq |-> <<>>], size, count.value, 0).seq

\* a generator kept between calls: a call with the seed string of the call
\* before it goes on drawing from that call's stream
generateDeterministicSequenceKeptStream(version, size, moves, salt) ==
    LET count == IF moves # NoCount THEN moves
                 ELSE getDeterministicShuffleCount(version, size)
        rng == rngFromSeedString(BenchmarkPrefix \o version \o Underscore
                                 \o StrOfNat(size) \o salt)
        kept == IF lastCall.fn = "generateDeterministicSequence" /\ lastCall.salt = salt
                THEN generateLoop([a |-> rng, seq |-> <<>>], size, Len(lastCall.seq), 0).a
                ELSE rng
    IN generateLoop([a |-> kept, seq |-> <<>>], size, count, 0).seq

\* generateDeterministicSequence(size, moves, salt), VERSION being version
generateDeterministicSequence(version, size, moves, salt) ==
    LET count == IF moves # NoCount THEN moves
                 ELSE getDeterministicShuffleCount(version, size)
        rng == rngFromSeedString(BenchmarkPrefix \o version \o Underscore
                                 \o StrOfNat(size) \o salt)
    IN generateLoop([a |-> rng, seq |-> <<>>], size, count, 0).seq

(***************************************************************************)
(* Moves.                                                                  *)
(***************************************************************************)
\* the Move records of a board of side n: what the gestures of Board.jsx and
\* generateDeterministicSequence produce
ValidMoves(n) ==
    {[type |-> "row", index |-> i, direction |-> d] :
        i \in 1..n, d \in {"left", "right"}}
    \cup
    {[type |-> "column", index |-> i, direction |-> d] :
        i \in 1..n, d \in {"up", "down"}}

\* what a decoded share payload can hold: any type, any direction, and an
\* index one off either end
AnyMoves(n) ==
    {[type |-> t, index |-> i, direction |-> d] :
        t \in {"row", "column", "diagonal"},
        i \in 0..(n + 1),
        d \in {"left", "right", "up", "down"}}

MalformedMoves(n) == AnyMoves(n) \ ValidMoves(n)

NoMove == [type |-> "", index |-> 0, direction |-> ""]

RECURSIVE SeqsOfLen(_, _)
SeqsOfLen(S, k) ==
    IF k = 0 THEN {<<>>}
    ELSE {Append(q, m) : q \in SeqsOfLen(S, k - 1), m \in S}

(***************************************************************************)
(* Share codec: base64url (toBase64Url / fromBase64Url over btoa / atob)   *)
(* and the JSON text of a share payload {size, seq}.  A string is the      *)
(* sequence of its code units; a thrown exception is the value Thrown.     *)
(***************************************************************************)
\* the result of a call that threw
Thrown == [threw |-> TRUE]

\* the character of the base64 digit v of 0..63: A-Z a-z 0-9 + /
Base64Char(v) ==
    IF v < 26 THEN 65 + v
    ELSE IF v < 52 THEN 97 + (v - 26)
    ELSE IF v < 62 THEN 48 + (v - 52)
    ELSE IF v = 62 THEN 43 ELSE 47

\* the base64 digit of a character, -1 when it has none
Base64Digit(c) ==
    IF c >= 65 /\ c <= 90 THEN c - 65
    ELSE IF c >= 97 /\ c <= 122 THEN c - 97 + 26
    ELSE IF c >= 48 /\ c <= 57 THEN c - 48 + 52
    ELSE IF c = 43 THEN 62
    ELSE IF c = 47 THEN 63
    ELSE -1

\* the base64 text of the bytes of str from position i on, = padding included
RECURSIVE btoaLoop(_, _, _)
btoaLoop(str, i, acc) ==
    IF Evaluated(acc) /\ i <= Len(str)
    THEN LET b1 == str[i]
             b2 == IF i + 1 <= Len(str) THEN str[i + 1] ELSE 0
             b3 == IF i + 2 <= Len(str) THEN str[i + 2] ELSE 0
             c1 == Base64Char(b1 \div 4)
             c2 == Base64Char((b1 % 4) * 16 + (b2 \div 16))
             c3 == IF i + 1 <= Len(str)
                   THEN Base64Char((b2 % 16) * 4 + (b3 \div 64)) ELSE 61
             c4 == IF i + 2 <= Len(str) THEN Base64Char(b3 % 64) ELSE 61
         IN btoaLoop(str, i + 3, acc \o <<c1, c2, c3, c4>>)
    ELSE acc

\* btoa(str): throws when a code unit is above 255
btoa(str) ==
    IF \E i \in 1..Len(str) : str[i] > 255 THEN Thrown
    ELSE [threw |-> FALSE, value |-> btoaLoop(str, 1, <<>>)]

\* str.replace(/x/g, y) for single characters x, y
replaceAll(str, x, y) == [i \in 1..Len(str) |-> IF str[i] = x THEN y ELSE str[i]]

\* str.replace(/=+$/, "")
RECURSIVE stripPadding(_)
stripPadding(str) ==
    IF str # <<>> /\ str[Len(str)] = 61
    THEN stripPadding(SubSeq(str, 1, Len(str) - 1))
    ELSE str

\* toBase64Url with the padding left in place
toBase64UrlPadded(str) ==
    LET b == btoa(str)
    IN IF b.threw THEN Thrown
       ELSE [threw |-> FALSE,
             value |-> replaceAll(replaceAll(b.value, 43, 45), 47, 95)]

\* toBase64Url(str)
toBase64Url(str) ==
    LET b == btoa(str)
    IN IF b.threw THEN Thrown
       ELSE [threw |-> FALSE,
             value |-> stripPadding(replaceAll(replaceAll(b.value, 43, 45), 47, 95))]

\* the bytes of the base64 digits of data from position i on; a last group
\* of two or three digits gives one or two bytes, its spare bits dropped
RECURSIVE atobLoop(_, _, _)
atobLoop(data, i, acc) ==
    IF Evaluated(acc) /\ i + 1 <= Len(data)
    THEN LET d1 == Base64Digit(data[i])
             d2 == Base64Digit(data[i + 1])
             d3 == IF i + 2 <= Len(data) THEN Base64Digit(data[i + 2]) ELSE 0
             d4 == IF i + 3 <= Len(data) THEN Base64Digit(data[i + 3]) ELSE 0
             b1 == d1 * 4 + (d2 \div 16)
             b2 == (d2 % 16) * 16 + (d3 \div 4)
             b3 == (d3 % 4) * 64 + d4
         IN atobLoop(data, i + 4,
                     acc \o (IF i + 3 <= Len(data) THEN <<b1, b2, b3>>
                             ELSE IF i + 2 <= Len(data) THEN <<b1, b2>>
                             ELSE <<b1>>))
    ELSE acc

\* atob(b64), the forgiving-base64 decode: one or two = are dropped from the
\* end of a text whose length is a multiple of 4; it throws when the length
\* is then 1 modulo 4 or a character is no base64 digit
atob(b64) ==
    LET n == Len(b64)
        cut == IF n % 4 = 0 /\ n >= 2 /\ b64[n] = 61 /\ b64[n - 1] = 61 THEN 2
               ELSE IF n % 4 = 0 /\ n >= 1 /\ b64[n] = 61 THEN 1
               ELSE 0
        data == SubSeq(b64, 1, n - cut)
    IN IF Len(data) % 4 = 1 \/ \E i \in 1..Len(data) : Base64Digit(data[i]) = -1
       THEN Thrown
       ELSE [threw |-> FALSE, value |-> atobLoop(data, 1, <<>>)]

\* "=".repeat(k)
repeatPad(k) == [i \in 1..k |-> 61]

\* fromBase64Url(b64url)
fromBase64Url(b64url) ==
    LET pad64 == repeatPad((4 - (Len(b64url) % 4)) % 4)
        b64 == replaceAll(replaceAll(b64url, 45, 43), 95, 47) \o pad64
    IN atob(b64)

(***************************************************************************)
(* JSON text of a share payload.  A parsed value is a record [t, v]: a     *)
(* number (v its value), a string (v its code units), an array (v the      *)
(* sequence of its elements) or an object (v the sequence of its members   *)
(* [key, val]).  The texts of the model hold objects, arrays, strings      *)
(* without escapes and non-negative integers, with or without spaces.      *)
(***************************************************************************)
\* the words of a payload and their code units
Words == {"size", "seq", "type", "index", "direction", "row", "column", "diagonal", "left", "right", "up", "down"}

Chars(w) ==
    CASE w = "size" -> <<115, 105, 122, 101>>
      [] w = "seq" -> <<115, 101, 113>>
      [] w = "type" -> <<116, 121, 112, 101>>
      [] w = "index" -> <<105, 110, 100, 101, 120>>
      [] w = "direction" -> <<100, 105, 114, 101, 99, 116, 105, 111, 110>>
      [] w = "row" -> <<114, 111, 119>>
      [] w = "column" -> <<99, 111, 108, 117, 109, 110>>
      [] w = "diagonal" -> <<100, 105, 97, 103, 111, 110, 97, 108>>
      [] w = "left" -> <<108, 101, 102, 116>>
      [] w = "right" -> <<114, 105, 103, 104, 116>>
      [] w = "up" -> <<117, 112>>
      [] w = "down" -> <<100, 111, 119, 110>>

\* the JavaScript string of code units s, as the engine compares it
Word(s) == IF \E w \in Words : Chars(w) = s
           THEN CHOOSE w \in Words : Chars(w) = s
           ELSE "?"

JsUndefined == [t |-> "undefined", v |-> 0]

\* `"${w}"`
Quoted(s) == <<34>> \o s \o <<34>>

\* JSON.stringify of a move {type, index, direction}; sep is "" (JavaScript)
\* or " " (json.dumps of the README)
stringifyMove(m, sep) ==
    <<123>> \o Quoted(Chars("type")) \o <<58>> \o sep \o Quoted(Chars(m.type))
    \o <<44>> \o sep \o Quoted(Chars("index")) \o <<58>> \o sep \o StrOfNat(m.index)
    \o <<44>> \o sep \o Quoted(Chars("direction")) \o <<58>> \o sep
    \o Quoted(Chars(m.direction)) \o <<125>>

RECURSIVE stringifyMoves(_, _, _)
stringifyMoves(seq, i, sep) ==
    IF i > Len(seq) THEN <<>>
    ELSE (IF i > 1 THEN <<44>> \o sep ELSE <<>>)
         \o stringifyMove(seq[i], sep) \o stringifyMoves(seq, i + 1, sep)

\* JSON.stringify({size, seq})
stringify(payload, sep) ==
    <<123>> \o Quoted(Chars("size")) \o <<58>> \o sep \o StrOfNat(payload.size)
    \o <<44>> \o sep \o Quoted(Chars("seq")) \o <<58>> \o sep
    \o <<91>> \o stringifyMoves(payload.seq, 1, sep) \o <<93>> \o <<125>>

\* a syntax error of JSON.parse
ParseFail == [ok |-> FALSE, val |-> JsUndefined, next |-> 0]

\* the position of the first character at or after i that is no white space
RECURSIVE skipWs(_, _)
skipWs(text, i) ==
    IF i <= Len(text) /\ text[i] \in {32, 9, 10, 13}
    THEN skipWs(text, i + 1)
    ELSE i

\* the position after the run of digits that starts at i
RECURSIVE digitsEnd(_, _)
digitsEnd(text, i) ==
    IF i <= Len(text) /\ text[i] >= 48 /\ text[i] <= 57
    THEN digitsEnd(text, i + 1)
    ELSE i

\* the value of a run of decimal digits
RECURSIVE NatOfStr(_)
NatOfStr(s) ==
    IF s = <<>> THEN 0
    ELSE 10 * NatOfStr(SubSeq(s, 1, Len(s) - 1)) + (s[Len(s)] - 48)

\* a number at i: digits, no leading zero
parseNumber(text, i) ==
    LET j == digitsEnd(text, i)
    IN IF j = i \/ (text[i] = 48 /\ j > i + 1) THEN ParseFail
       ELSE [ok   |-> TRUE,
             val  |-> [t |-> "number", v |-> NatOfStr(SubSeq(text, i, j - 1))],
             next |-> j]

\* the position of the quote that closes the string opened before i, 0 when
\* the string does not close or holds a control character or an escape
RECURSIVE stringEnd(_, _)
stringEnd(text, i) ==
    IF i > Len(text) THEN 0
    ELSE IF text[i] = 34 THEN i
    ELSE IF text[i] < 32 \/ text[i] = 92 THEN 0
    ELSE stringEnd(text, i + 1)

\* a string at i (text[i] is the opening quote)
parseString(text, i) ==
    LET j == stringEnd(text, i + 1)
    IN IF j = 0 THEN ParseFail
       ELSE [ok   |-> TRUE,
             val  |-> [t |-> "string", v |-> SubSeq(text, i + 1, j - 1)],
             next |-> j + 1]

RECURSIVE parseValue(_, _)
RECURSIVE parseElements(_, _, _)
RECURSIVE parseMembers(_, _, _)

\* the elements of an array from i on, acc being those before
parseElements(text, i, acc) ==
    LET r == parseValue(text, i)
        j == skipWs(text, r.next)
    IN IF ~r.ok \/ j > Len(text) THEN ParseFail
       ELSE IF text[j] = 44
            THEN parseElements(text, skipWs(text, j + 1), Append(acc, r.val))
       ELSE IF text[j] = 93
            THEN [ok |-> TRUE, val |-> [t |-> "array", v |-> Append(acc, r.val)],
                  next |-> j + 1]
       ELSE ParseFail

\* the members of an object from i on, acc being those before
parseMembers(text, i, acc) ==
    IF i > Len(text) \/ text[i] # 34 THEN ParseFail
    ELSE LET k == parseString(text, i)
             c == skipWs(text, k.next)
         IN IF ~k.ok \/ c > Len(text) \/ text[c] # 58 THEN ParseFail
            ELSE LET r == parseValue(text, skipWs(text, c + 1))
                     j == skipWs(text, r.next)
                     members == Append(acc, [key |-> k.val.v, val |-> r.val])
                 IN IF ~r.ok \/ j > Len(text) THEN ParseFail
                    ELSE IF text[j] = 44
                         THEN parseMembers(text, skipWs(text, j + 1), members)
                    ELSE IF text[j] = 125
                         THEN [ok |-> TRUE, val |-> [t |-> "object", v |-> members],
                               next |-> j + 1]
                    ELSE ParseFail

\* a value at i
parseValue(text, i) ==
    IF i > Len(text) THEN ParseFail
    ELSE IF text[i] = 123
         THEN LET j == skipWs(text, i + 1)
              IN IF j <= Len(text) /\ text[j] = 125
                 THEN [ok |-> TRUE, val |-> [t |-> "object", v |-> <<>>], next |-> j + 1]
                 ELSE parseMembers(text, j, <<>>)
    ELSE IF text[i] = 91
         THEN LET j == skipWs(text, i + 1)
              IN IF j <= Len(text) /\ text[j] = 93
                 THEN [ok |-> TRUE, val |-> [t |-> "array", v |-> <<>>], next |-> j + 1]
                 ELSE parseElements(text, j, <<>>)
    ELSE IF text[i] = 34 THEN parseString(text, i)
    ELSE parseNumber(text, i)

\* JSON.parse(text): the value, or Thrown for a SyntaxError
jsonParse(text) ==
    LET r == parseValue(text, skipWs(text, 1))
    IN IF r.ok /\ skipWs(text, r.next) = Len(text) + 1
       THEN [threw |-> FALSE, value |-> r.val]
       ELSE Thrown

\* obj[key]: the member of an object (the last one of that key), undefined
\* for a key it has not and for a number or a string
RECURSIVE Prop(_, _)
Prop(val, key) ==
    IF val.t # "object" \/ val.v = <<>> THEN JsUndefined
    ELSE IF val.v[Len(val.v)].key = key THEN val.v[Len(val.v)].val
    ELSE Prop([t |-> "object", v |-> SubSeq(val.v, 1, Len(val.v) - 1)], key)

(***************************************************************************)
(* The page at startup: parseQuery and the mount effect of App             *)
(* (src/unnamed/part_000 lines 165-222; src/ui/src/App.jsx lines 301-359   *)
(* is the same effect plus committedBoard).  The state set by the effect   *)
(* is the one React renders after it: the last value given to each setter. *)
(***************************************************************************)
\* FIXED_LIMITS
FIXED_LIMITS == [n \in {3, 4, 5, 6} |-> CASE n = 3 -> 50 [] n = 4 -> 100
                                          [] n = 5 -> 200 [] n = 6 -> 400]

\* levelSizes
levelSizes == <<3, 4, 5, 6>>

\* FIXED_LIMITS[nextSize] || nextSize * nextSize * 2
LimitForSize(nextSize) ==
    IF nextSize \in DOMAIN FIXED_LIMITS THEN FIXED_LIMITS[nextSize]
    ELSE nextSize * nextSize * 2

\* parseInt(str, 10): [nan, value]; leading blanks, a sign, then the digits
\* up to the first other character
parseInt10(str) ==
    LET i == skipWs(str, 1)
        signed == i <= Len(str) /\ str[i] \in {43, 45}
        j == IF signed THEN i + 1 ELSE i
        k == digitsEnd(str, j)
        n == NatOfStr(SubSeq(str, j, k - 1))
    IN IF k = j THEN [nan |-> TRUE, value |-> 0]
       ELSE [nan |-> FALSE, value |-> IF signed /\ str[i] = 45 THEN 0 - n ELSE n]

\* clampInt(n, lo, hi), n being a result of parseInt10
clampInt(n, lo, hi) ==
    IF n.nan THEN lo
    ELSE LET m == IF hi < n.value THEN hi ELSE n.value
         IN IF lo > m THEN lo ELSE m

\* parseQuery(search), search being the parameters of the URL ("" for one
\* that is absent or empty: get(..) || default treats both alike)
parseQuery(search) ==
    [size        |-> clampInt(parseInt10(IF search.size = <<>> THEN <<54>> ELSE search.size),
                              MinSize, MaxSize),
     p           |-> search.p,
     progressive |-> search.progressive = <<49>>
                     \/ search.progressive = <<116, 114, 117, 101>>]

\* the seq of a decoded payload as the effect rebuilds it:
\* decoded.seq.map((m) => ({type: m.type, index: parseInt(m.index, 10),
\* direction: m.direction})); every index of the model's payloads is a number
mapMove(m) ==
    [type      |-> IF Prop(m, Chars("type")).t = "string"
                   THEN Word(Prop(m, Chars("type")).v) ELSE "?",
     index     |-> parseInt10(StrOfNat(Prop(m, Chars("index")).v)).value,
     direction |-> IF Prop(m, Chars("direction")).t = "string"
                   THEN Word(Prop(m, Chars("direction")).v) ELSE "?"]

mapSeq(elements) == [i \in 1..Len(elements) |-> mapMove(elements[i])]

\* const applied = deepCopyBoard(base); applySequence(applied, seq); then
\* the three deepCopyBoard(applied) given to setStartBoard, setBoard and
\* setCommittedBoard: [heap, startBoard, board, committedBoard, threw]
shuffledBoards(H, base, seq) ==
    Then(deepCopyBoard(H, base), LAMBDA applied :
    Then(applySequence(applied.heap, applied.ref, seq), LAMBDA moved :
    Then(deepCopyBoard(moved.heap, applied.ref), LAMBDA c1 :
    Then(deepCopyBoard(c1.heap, applied.ref), LAMBDA c2 :
    Then(deepCopyBoard(c2.heap, applied.ref), LAMBDA c3 :
    IF applied.threw \/ moved.threw \/ c1.threw \/ c2.threw \/ c3.threw
    THEN [heap |-> IF applied.threw THEN H ELSE moved.heap,
          startBoard |-> EmptyArray, board |-> EmptyArray,
          committedBoard |-> EmptyArray, threw |-> TRUE]
    ELSE [heap |-> c3.heap, startBoard |-> c1.ref, board |-> c2.ref,
          committedBoard |-> c3.ref, threw |-> FALSE])))))

\* the outcome of the two Math.random() of pickPredictionTarget on a board
\* of side n that the model draws: the last cell
RandomCells(n) == {<<n - 1, n - 1>>}

\* pickPredictionTarget(currentBoard), rnd being <<r, c>>: <<{r, c, val}>>.
\* A tile is {id, letter}: its property val is undefined
pickPredictionTarget(currentBoard, rnd) ==
    <<[r |-> rnd[1], c |-> rnd[2], val |-> Undefined]>>

\* startLevel(n) on heap H and state a: [heap, app, seq].  queued is the
\* blindMode || multiMoveMode of the render whose startLevel runs, rnd the
\* outcome of Math.random
startLevel(H, a, version, n, queued, rnd) ==
    Then(buildTileBoard(H, n, solvedLetters(n)), LAMBDA base :
    Then(generateDeterministicSequence(version, n, NoCount, <<>>), LAMBDA seq :
    Then(shuffledBoards(base.heap, base.ref, seq), LAMBDA made :
    [heap |-> made.heap,
     seq  |-> seq,
     app  |-> [a EXCEPT !.size = n,
                        !.limitMoves = LimitForSize(n),
                        !.solvedVisible = FALSE,
                        !.limitVisible = FALSE,
                        !.outOfMoves = FALSE,
                        !.moveQueue = <<>>,
                        !.predictionFeedback = "null",
                        !.shuffleSeq = seq,
                        !.startBoard = made.startBoard,
                        !.board = made.board,
                        !.committedBoard = made.committedBoard,
                        !.moveCount = 0,
                        !.predictionTarget =
                            IF queued THEN pickPredictionTarget(made.board, rnd)
                            ELSE <<>>]])))

(***************************************************************************)
(* Observation: the content of a board as a caller reads it (length, then  *)
(* the elements 0..length-1 of every row).                                 *)
(***************************************************************************)
UndefinedCell == [id |-> 0, letter |-> 0]

GridOf(H, b) ==
    [r \in 0..(jsLength(b) - 1) |->
        LET R == H.rows[Get(b, r)]
        IN [c \in 0..(jsLength(R) - 1) |->
               IF Get(R, c) = Undefined THEN UndefinedCell ELSE H.tiles[Get(R, c)]]]

Ref(t) == IF t = "board" THEN board ELSE copy

Other(t) == IF t = "board" THEN "copy" ELSE "board"

Targets == IF copy = EmptyArray THEN {"board"} ELSE {"board", "copy"}

Entry(op, t, move, seq, threw) ==
    [op |-> op, target |-> t, move |-> move, seq |-> seq, threw |-> threw,
     before |-> GridOf(heap, Ref(t)), beforeOther |-> GridOf(heap, Ref(Other(t)))]

Copies == Cardinality({i \in 1..Len(hist) : hist[i].op = "deepCopyBoard"})

(***************************************************************************)
(* The engine driven by a caller.                                          *)
(***************************************************************************)
\* how a p parameter was made: the payload encoded, the blank json.dumps
\* puts after , and : ("" for JSON.stringify), the characters lost since
NoPayload == [size |-> 0, seq |-> <<>>]

NoLink == [payload |-> NoPayload, sep |-> <<>>, cut |-> 0]

\* no page
NoQuery == [size |-> <<>>, p |-> <<>>, progressive |-> <<>>, version |-> <<>>]

NoApp == [size |-> 0, board |-> EmptyArray, startBoard |-> EmptyArray,
          committedBoard |-> EmptyArray, shuffleSeq |-> <<>>, moveCount |-> 0,
          limitMoves |-> 0, progressive |-> TRUE, levelIndex |-> 0,
          outOfMoves |-> FALSE, solvedVisible |-> FALSE, limitVisible |-> FALSE,
          moveQueue |-> <<>>, animating |-> FALSE, solvedMessage |-> "Solved!",
          blindMode |-> FALSE, multiMoveMode |-> FALSE,
          predictionTarget |-> <<>>, predictionInput |-> <<>>,
          consecutiveWrong |-> 0, predictionFeedback |-> "null",
          newSaltCounter |-> 0]

\* no event yet: the controller that runs ("queued" is src/ui/src/App.jsx,
\* "single" is src/unnamed/part_000), the handler or callback that ran last
\* and the move it was given (<<move>>)
NoPlay == [variant |-> "queued", last |-> "none", move |-> <<>>]

\* JSON.parse(fromBase64Url(p)) not run
NotDecoded == [threw |-> FALSE, value |-> JsUndefined]

\* what the effect did: whether it ran, the value of JSON.parse(
\* fromBase64Url(p)), the sequences it handed to applySequence, and the
\* branch that set the boards: "level" (startLevel), "payload" (the try
\* block) or "generated" (the fallback)
NoTrace == [mounted |-> FALSE, decoded |-> NotDecoded, applied |-> <<>>, branch |-> "none"]

\* no call of the generator yet
NoCall == [fn |-> "none", size |-> 0, moves |-> NoCount, salt |-> <<>>,
           count |-> NoCount, seq |-> <<>>]

\* a solved board of side n, as App builds it before shuffling
InitBoard ==
    \E n \in MinSize..MaxSize :
        LET built == buildTileBoard(EmptyHeap, n, solvedLetters(n))
        IN /\ heap = built.heap
           /\ board = built.ref
           /\ copy = EmptyArray
           /\ hist = <<>>
           /\ solved = [board |-> isSolved(built.heap, built.ref), copy |-> FALSE]
           /\ link = NoLink
           /\ query = NoQuery
           /\ app = NoApp
           /\ trace = NoTrace
           /\ timers = <<>>
           /\ play = NoPlay

Init ==
    /\ InitBoard
    /\ VERSION = makeVersionNow(CHOOSE d \in Clocks : d.minutes = 0)
    /\ prevCall = NoCall
    /\ lastCall = NoCall

\* applyMove(t, m) with a Move of the board's size, then isSolved(t)
ApplyMove ==
    /\ jsLength(board) <= MaxMoveSize
    /\ Len(hist) < MaxMoves
    /\ \E t \in Targets : \E m \in ValidMoves(jsLength(board)) :
        LET res == applyMove(heap, Ref(t), m)
        IN /\ heap' = res.heap
           /\ hist' = Append(hist, Entry("applyMove", t, m, <<>>, res.threw))
           /\ solved' = [solved EXCEPT ![t] = isSolved(res.heap, Ref(t))]
    /\ UNCHANGED <<board, copy, shuffleVars, appVars, playVars>>

\* copy = deepCopyBoard(board), then isSolved(copy)
DeepCopy ==
    /\ Len(hist) < MaxMoves
    /\ Copies < MaxCopies
    /\ LET res == deepCopyBoard(heap, board)
       IN /\ heap' = res.heap
          /\ copy' = IF res.threw THEN copy ELSE res.ref
          /\ hist' = Append(hist, Entry("deepCopyBoard", "board", NoMove, <<>>, res.threw))
          /\ solved' = IF res.threw THEN solved
                       ELSE [solved EXCEPT !.copy = isSolved(res.heap, res.ref)]
    /\ UNCHANGED <<board, shuffleVars, appVars, playVars>>

Next == ApplyMove \/ DeepCopy

Spec == Init /\ [][Next]_vars

(***************************************************************************)
(* The engine fed moves that nothing validated (a decoded share payload).  *)
(***************************************************************************)
\* the moves handed to the engine so far
RECURSIVE Issued(_)
Issued(h) ==
    IF h = <<>> THEN 0
    ELSE Issued(Tail(h))
         + (IF Head(h).op = "applySequence" /\ Head(h).seq # <<>>
            THEN Len(Head(h).seq) ELSE 1)

\* applyMove(board, m) with any move record
ApplyUnchecked ==
    /\ jsLength(board) <= MaxMoveSize
    /\ Issued(hist) < MaxUncheckedMoves
    /\ \E m \in AnyMoves(jsLength(board)) :
        LET res == applyMove(heap, board, m)
        IN /\ heap' = res.heap
           /\ hist' = Append(hist, Entry("applyMove", "board", m, <<>>, res.threw))
    /\ UNCHANGED <<board, copy, solved, shuffleVars, appVars, playVars>>

\* applySequence(board, seq) with any move records
ApplySequence ==
    /\ jsLength(board) <= MaxMoveSize
    /\ Issued(hist) < MaxUncheckedMoves
    /\ \E k \in 0..MaxSeqLen :
        /\ Issued(hist) + k <= MaxUncheckedMoves
        /\ \E seq \in SeqsOfLen(AnyMoves(jsLength(board)), k) :
            LET res == applySequence(heap, board, seq)
            IN /\ heap' = res.heap
               /\ hist' = Append(hist, Entry("applySequence", "board", NoMove, seq, res.threw))
    /\ UNCHANGED <<board, copy, solved, shuffleVars, appVars, playVars>>

NextUnchecked == ApplyUnchecked \/ ApplySequence

SpecUnchecked == Init /\ [][NextUnchecked]_vars

(***************************************************************************)
(* The shuffle generator called for the board's size, as startLevel and    *)
(* newDeterministicPuzzleForSize call it.                                  *)
(***************************************************************************)
engineVars == <<heap, board, copy, hist, solved>>

\* the module is loaded: VERSION = makeVersionNow()
InitShuffle ==
    /\ InitBoard
    /\ \E d \in Clocks : VERSION = makeVersionNow(d)
    /\ prevCall = NoCall
    /\ lastCall = NoCall

\* getDeterministicShuffleCount(size)
CallShuffleCount ==
    /\ lastCall' = [fn    |-> "getDeterministicShuffleCount",
                size  |-> jsLength(board),
                moves |-> NoCount,
                salt  |-> <<>>,
                count |-> getDeterministicShuffleCount(VERSION, jsLength(board)),
                seq   |-> <<>>]
    /\ prevCall' = lastCall
    /\ UNCHANGED <<engineVars, VERSION, appVars, playVars>>

\* generateDeterministicSequence(size, moves, salt)
CallGenerate ==
    /\ jsLength(board) <= MaxGenSize
    /\ \E moves \in {NoCount} \cup 0..MaxExplicit : \E k \in 0..MaxSalt :
        lastCall' = [fn    |-> "generateDeterministicSequence",
                 size  |-> jsLength(board),
                 moves |-> moves,
                 salt  |-> Salt(k),
                 count |-> NoCount,
                 seq   |-> generateDeterministicSequence(VERSION, jsLength(board),
                                                         moves, Salt(k))]
    /\ prevCall' = lastCall
    /\ UNCHANGED <<engineVars, VERSION, appVars, playVars>>

NextShuffle == CallShuffleCount \/ CallGenerate

SpecShuffle == InitShuffle /\ [][NextShuffle]_vars

(***************************************************************************)
(* Startup of the page.                                                    *)
(***************************************************************************)
\* the decimal text of a size
SizeText(n) == StrOfNat(n)

\* encode(payload): the p parameter of a share link
ShareLink(payload, sep) == toBase64Url(stringify(payload, sep)).value

\* the move sequences of the share payloads of size n: up to MaxShareLen
\* moves of the size,
ValidSeqs(n) == UNION {SeqsOfLen(ValidMoves(n), k) : k \in 0..MaxShareLen}

\* and a move out of the Move domains, alone or after a move of the size
BadSeqs(n) ==
    {<<b>> : b \in MalformedMoves(n)}
    \cup {<<g, b>> : g \in ValidMoves(n), b \in MalformedMoves(n)}

ValidPayloads ==
    UNION {{[size |-> n, seq |-> s] : s \in ValidSeqs(n)} : n \in MinSize..MaxShareSize}

BadMovePayloads ==
    UNION {{[size |-> n, seq |-> s] : s \in BadSeqs(n)} : n \in MinSize..MaxShareSize}

\* payloads of a size outside 2..12
BadSizePayloads ==
    {[size |-> n, seq |-> s] :
        n \in {MinSize - 1, MaxSize + 1}, s \in SeqsOfLen(ValidMoves(MinSize), 1) \cup {<<>>}}

\* the size parameters asked with a share link: none, and each size up to
\* one more than the payloads'
QuerySizes == {<<>>} \cup {SizeText(n) : n \in MinSize..(MaxShareSize + 1)}

\* other size parameters: "abc", "0", "7", "13" and "-3"
OtherSizes ==
    {<<97, 98, 99>>, <<48>>, <<55>>, <<49, 51>>, <<45, 51>>}

\* the valid payloads of at most one move
SmallPayloads == {pl \in ValidPayloads : Len(pl.seq) <= 1}

\* the p parameter of a link
LinkText(made) ==
    IF made = NoLink THEN <<>>
    ELSE SubSeq(ShareLink(made.payload, made.sep), 1,
                Len(ShareLink(made.payload, made.sep)) - made.cut)

\* a page opened with the size parameter s, the link made and the flag g
Page(s, made, g) ==
    [query |-> [size |-> s, p |-> LinkText(made), progressive |-> g, version |-> <<>>],
     link  |-> made]

\* the version parameters: 052420250200, 052420250049 and 2 (not a version)
QueryVersions ==
    {<<48, 53, 50, 52, 50, 48, 50, 53, 48, 50, 48, 48>>,
     <<48, 53, 50, 52, 50, 48, 50, 53, 48, 48, 52, 57>>,
     <<50>>}

\* the URLs the page is opened with
Pages ==
    \* a link made by toBase64Url(JSON.stringify(payload)), for its size
    {Page(SizeText(pl.size), [payload |-> pl, sep |-> <<>>, cut |-> 0], <<>>) :
        pl \in ValidPayloads \cup BadMovePayloads}
    \cup
    \* a link made by the script of the README (json.dumps puts blanks)
    {Page(SizeText(pl.size), [payload |-> pl, sep |-> <<32>>, cut |-> 0], <<>>) :
        pl \in {v \in ValidPayloads : v.size = MinSize}}
    \cup
    \* a link that lost its last characters
    {Page(SizeText(pl.size), [payload |-> pl, sep |-> <<>>, cut |-> c], <<>>) :
        pl \in SmallPayloads, c \in 1..MaxCut}
    \cup
    \* a link opened with another size parameter, or none
    {Page(s, [payload |-> pl, sep |-> <<>>, cut |-> 0], <<>>) :
        s \in QuerySizes, pl \in SmallPayloads}
    \cup
    \* a link to a payload of a size no board has, asked with a size below
    \* the smallest
    {Page(SizeText(MinSize - 1), [payload |-> pl, sep |-> <<>>, cut |-> 0], <<>>) :
        pl \in BadSizePayloads}
    \cup
    \* no link, or the progressive flag
    {Page(s, made, g) :
        s \in QuerySizes,
        made \in {NoLink, [payload |-> [size |-> MinSize, seq |-> <<>>],
                           sep |-> <<>>, cut |-> 0]},
        g \in {<<>>, <<49>>, <<116, 114, 117, 101>>, <<48>>}}
    \cup
    \* the version parameter
    {[Page(<<>>, NoLink, <<>>) EXCEPT !.query.version = v] : v \in QueryVersions}
    \cup
    \* a size parameter that is not a size of the share payloads
    {Page(s, NoLink, <<>>) : s \in OtherSizes}

\* the state of the useState initialisers: a solved 6 x 6 board and its
\* copies; [heap, app]
useStateInit ==
    LET b0 == buildTileBoard(EmptyHeap, 6, solvedLetters(6))
        c0 == deepCopyBoard(b0.heap, b0.ref)
        s0 == deepCopyBoard(c0.heap, b0.ref)
    IN [heap |-> s0.heap,
        app  |-> [NoApp EXCEPT !.size = 6, !.board = b0.ref,
                               !.committedBoard = c0.ref, !.startBoard = s0.ref,
                               !.limitMoves = LimitForSize(6)]]

\* the page opened with one of the URLs, before its effect runs; the module
\* is loaded first: VERSION = getVersionFromQuery() || makeVersionNow()
InitApp ==
    /\ \E page \in Pages :
        /\ query = page.query
        /\ link = page.link
        /\ VERSION = IF getVersionFromQuery(page.query) # <<>>
                     THEN getVersionFromQuery(page.query)
                     ELSE makeVersionNow(CHOOSE d \in Clocks : d.minutes = 0)
    /\ heap = useStateInit.heap
    /\ app = useStateInit.app
    /\ trace = NoTrace
    /\ timers = <<>>
    /\ play = NoPlay
    /\ board = useStateInit.app.board
    /\ copy = EmptyArray
    /\ hist = <<>>
    /\ solved = [board |-> isSolved(useStateInit.heap, useStateInit.app.board),
                 copy |-> FALSE]
    /\ prevCall = NoCall
    /\ lastCall = NoCall

\* JSON.parse(fromBase64Url(p))
decodePayload(p) ==
    LET raw == fromBase64Url(p)
    IN IF raw.threw THEN Thrown ELSE jsonParse(raw.value)

\* a value in a condition
truthy(val) ==
    CASE val.t = "number" -> val.v # 0
      [] val.t = "string" -> val.v # <<>>
      [] val.t = "undefined" -> FALSE
      [] OTHER -> TRUE

\* the try block of the effect: [accepted, heap, app, decoded, applied];
\* accepted is FALSE when the block threw or the payload did not pass the test
tryPayload(H, a, base, n, p) ==
    Then(decodePayload(p), LAMBDA parsed :
    Then([accepted |-> FALSE, heap |-> H, app |-> a,
          decoded |-> parsed, applied |-> <<>>], LAMBDA rejected :
    IF parsed.threw THEN rejected
    ELSE IF ~(/\ truthy(parsed.value)
              /\ Prop(parsed.value, Chars("size")) = [t |-> "number", v |-> n]
              /\ Prop(parsed.value, Chars("seq")).t = "array")
    THEN rejected
    ELSE Then(mapSeq(Prop(parsed.value, Chars("seq")).v), LAMBDA seq :
         Then(shuffledBoards(H, base, seq), LAMBDA made :
         IF made.threw
         THEN [rejected EXCEPT !.heap = made.heap, !.applied = <<seq>>]
         ELSE [accepted |-> TRUE,
               heap     |-> made.heap,
               app      |-> [a EXCEPT !.shuffleSeq = seq,
                                      !.startBoard = made.startBoard,
                                      !.board = made.board,
                                      !.committedBoard = made.committedBoard,
                                      !.moveCount = 0,
                                      !.solvedVisible = FALSE,
                                      !.limitVisible = FALSE],
               decoded  |-> parsed,
               applied  |-> <<seq>>]))))

\* the fallback of the effect: generateDeterministicSequence(n) applied to
\* base; try is the result of the try block: [heap, app, trace]
fallback(try, a, base, version, n) ==
    Then(generateDeterministicSequence(version, n, NoCount, <<>>), LAMBDA seq :
    Then(shuffledBoards(try.heap, base, seq), LAMBDA made :
    [heap  |-> made.heap,
     app   |-> [a EXCEPT !.shuffleSeq = seq,
                         !.startBoard = made.startBoard,
                         !.board = made.board,
                         !.committedBoard = made.committedBoard,
                         !.moveCount = 0,
                         !.solvedVisible = FALSE,
                         !.limitVisible = FALSE],
     trace |-> [mounted |-> TRUE, decoded |-> try.decoded,
                applied |-> Append(try.applied, seq),
                branch |-> "generated"]]))

\* the single-puzzle branch of the effect for the size n: [heap, app, trace]
singlePuzzle(H, a0, version, n, p) ==
    Then([a0 EXCEPT !.progressive = FALSE, !.size = n,
                    !.limitMoves = LimitForSize(n)], LAMBDA a :
    Then(buildTileBoard(H, n, solvedLetters(n)), LAMBDA base :
    Then(tryPayload(base.heap, a, base.ref, n, p), LAMBDA try :
    IF try.accepted
    THEN [heap  |-> try.heap,
          app   |-> try.app,
          trace |-> [mounted |-> TRUE, decoded |-> try.decoded,
                     applied |-> try.applied, branch |-> "payload"]]
    ELSE fallback(try, a, base.ref, version, n))))

\* the mount effect on heap H and state a0 of a page opened with search:
\* [heap, app, trace]
mountEffect(H, a0, version, search) ==
    Then(parseQuery(search), LAMBDA q :
    IF q.progressive \/ q.p = <<>>
    THEN Then(startLevel(H, [a0 EXCEPT !.progressive = TRUE, !.levelIndex = 0],
                         version, levelSizes[1],
                         a0.blindMode \/ a0.multiMoveMode,
                         CHOOSE rnd \in RandomCells(levelSizes[1]) : TRUE), LAMBDA lvl :
         [heap  |-> lvl.heap,
          app   |-> lvl.app,
          trace |-> [mounted |-> TRUE, decoded |-> NotDecoded,
                     applied |-> <<lvl.seq>>, branch |-> "level"]])
    ELSE singlePuzzle(H, a0, version, q.size, q.p))

\* the page mounts: the effect runs once
Mount ==
    /\ ~trace.mounted
    /\ \E r \in {mountEffect(heap, app, VERSION, query)} :
        /\ heap' = r.heap
        /\ app' = r.app
        /\ trace' = r.trace
    /\ UNCHANGED <<link, query, board, copy, hist, solved, shuffleVars, playVars>>

NextStartup == Mount

SpecStartup == InitApp /\ [][NextStartup]_vars

(***************************************************************************)
(* The controller: the handlers of App run on the state of the last        *)
(* render.  A handler is the whole function: the state it leaves is the    *)
(* last value given to each setter.  A callback given to window.setTimeout *)
(* runs later with the variables of the render that created it.            *)
(***************************************************************************)
\* what a timeout callback reads of the render that created it
Closure(a) ==
    [progressive |-> a.progressive, levelIndex |-> a.levelIndex,
     blindMode |-> a.blindMode, multiMoveMode |-> a.multiMoveMode]

\* window.setTimeout(() => setAnimating(false), 230)
AnimationEnd(a) == [kind |-> "animationEnd", delay |-> 230, next |-> EmptyArray,
                    closure |-> Closure(a)]

\* window.setTimeout(() => { setAnimating(false); checkSolved(next); }, 230)
MoveEnd(a, next) == [kind |-> "moveEnd", delay |-> 230, next |-> next,
                     closure |-> Closure(a)]

\* window.setTimeout(() => advanceLevel(), 800)
Advance(c) == [kind |-> "advance", delay |-> 800, next |-> EmptyArray, closure |-> c]

\* checkSolved(currentBoard) of the render with closure c, on st = [heap,
\* app, timers]
checkSolved(st, c, currentBoard) ==
    IF isSolved(st.heap, currentBoard)
    THEN IF c.progressive
         THEN [st EXCEPT !.app.solvedMessage = "Level complete!",
                         !.app.solvedVisible = TRUE,
                         !.timers = Append(@, Advance(c))]
         ELSE [st EXCEPT !.app.solvedMessage = "Solved!",
                         !.app.solvedVisible = TRUE]
    ELSE st

\* the body of commitSingleMove(move) with setMoveCount((c) => c + step)
commitSingleMoveBy(st, variant, move, step) ==
    Then(deepCopyBoard(st.heap, st.app.board), LAMBDA next :
    Then(applyMove(next.heap, next.ref, move), LAMBDA moved :
    Then(IF variant = "queued" THEN deepCopyBoard(moved.heap, next.ref)
         ELSE [heap |-> moved.heap, ref |-> st.app.committedBoard, threw |-> FALSE],
         LAMBDA committed :
    [heap   |-> committed.heap,
     app    |-> [st.app EXCEPT !.animating = TRUE,
                               !.board = next.ref,
                               !.committedBoard = committed.ref,
                               !.moveCount = @ + step],
     timers |-> Append(st.timers, MoveEnd(st.app, next.ref))])))

\* a commitSingleMove that counts the move twice
commitSingleMoveCountedTwice(st, variant, move) ==
    commitSingleMoveBy(st, variant, move, 2)

\* commitSingleMove(move) (src/unnamed/part_000: the body of performMove
\* after the limit test, which has no committedBoard)
commitSingleMove(st, variant, move) == commitSingleMoveBy(st, variant, move, 1)

\* the body of performMove(move), atLimit being its test of the move count
performMoveAt(st, variant, move, atLimit) ==
    IF st.app.animating \/ st.app.outOfMoves THEN st
    ELSE IF atLimit
    THEN [st EXCEPT !.app.limitVisible = TRUE, !.app.outOfMoves = TRUE]
    ELSE IF variant = "queued" /\ (st.app.blindMode \/ st.app.multiMoveMode)
    THEN IF ~st.app.blindMode
         THEN Then(deepCopyBoard(st.heap, st.app.board), LAMBDA next :
              Then(applyMove(next.heap, next.ref, move), LAMBDA moved :
              [heap   |-> moved.heap,
               app    |-> [st.app EXCEPT !.moveQueue = Append(@, move),
                                         !.animating = TRUE,
                                         !.board = next.ref],
               timers |-> Append(st.timers, AnimationEnd(st.app))]))
         ELSE [st EXCEPT !.app.moveQueue = Append(@, move)]
    ELSE commitSingleMove(st, variant, move)

\* a performMove that tests moveCount > limitMoves
performMoveAboveLimit(st, variant, move) ==
    performMoveAt(st, variant, move, st.app.moveCount > st.app.limitMoves)

\* performMove(move)
performMove(st, variant, move) ==
    performMoveAt(st, variant, move, st.app.moveCount >= st.app.limitMoves)

\* the text R<r>C<c> typed in the prediction field, as <<r, c>>; <<>> is a
\* text that /R(\d+)C(\d+)/ does not match
PredictionText(r, c) == <<r, c>>

\* the validation of the prediction in submitMoves: every tile's val is
\* undefined, as is the target's, so the loops end with the last cell they
\* visit, (size - 1, size - 1)
predictionCorrect(a) ==
    /\ a.predictionInput # <<>>
    /\ a.predictionInput[1] - 1 = a.size - 1
    /\ a.predictionInput[2] - 1 = a.size - 1

\* the body of submitMoves() with let next = deepCopyBoard(from), rnd being
\* the outcome of Math.random
submitMovesFrom(st, rnd, from) ==
    IF st.app.moveQueue = <<>> THEN st
    ELSE Then(deepCopyBoard(st.heap, from), LAMBDA next :
         Then(IF st.app.predictionTarget # <<>>
              THEN deepCopyBoard(next.heap, st.app.committedBoard)
              ELSE [heap |-> next.heap, ref |-> EmptyArray, threw |-> FALSE],
              LAMBDA testBoard :
         Then(IF st.app.predictionTarget # <<>>
              THEN applySequence(testBoard.heap, testBoard.ref, st.app.moveQueue)
              ELSE [heap |-> testBoard.heap, threw |-> FALSE], LAMBDA tested :
         Then(IF st.app.predictionTarget = <<>> THEN st.app
              ELSE [st.app EXCEPT
                      !.predictionFeedback =
                          IF predictionCorrect(st.app) THEN "correct" ELSE "wrong",
                      !.consecutiveWrong =
                          IF predictionCorrect(st.app) THEN 0 ELSE @ + 1,
                      !.predictionTarget = pickPredictionTarget(testBoard.ref, rnd),
                      !.predictionInput = <<>>], LAMBDA predicted :
         Then(applySequence(tested.heap, next.ref, st.app.moveQueue), LAMBDA moved :
         Then(deepCopyBoard(moved.heap, next.ref), LAMBDA committed :
         checkSolved([heap   |-> committed.heap,
                      app    |-> [predicted EXCEPT
                                     !.board = next.ref,
                                     !.committedBoard = committed.ref,
                                     !.moveCount = @ + Len(st.app.moveQueue),
                                     !.moveQueue = <<>>],
                      timers |-> st.timers],
                     Closure(st.app), next.ref)))))))

\* a submitMoves that replays the queue onto the visible board
submitMovesOntoVisible(st, rnd) == submitMovesFrom(st, rnd, st.app.board)

\* submitMoves()
submitMoves(st, rnd) == submitMovesFrom(st, rnd, st.app.committedBoard)

\* the body of resetPuzzle() with the boards copied from the board from
resetPuzzleFrom(st, variant, queued, rnd, from) ==
    Then(deepCopyBoard(st.heap, from), LAMBDA b :
    Then(IF variant = "queued" THEN deepCopyBoard(b.heap, from)
         ELSE [heap |-> b.heap, ref |-> st.app.committedBoard, threw |-> FALSE],
         LAMBDA committed :
    [st EXCEPT !.heap = committed.heap,
               !.app = [@ EXCEPT !.board = b.ref,
                                 !.committedBoard = committed.ref,
                                 !.moveCount = 0,
                                 !.outOfMoves = FALSE,
                                 !.solvedVisible = FALSE,
                                 !.limitVisible = FALSE,
                                 !.moveQueue = <<>>,
                                 !.predictionFeedback = "null",
                                 !.consecutiveWrong = 0,
                                 !.predictionTarget =
                                     IF variant = "queued" /\ queued
                                     THEN pickPredictionTarget(st.app.startBoard, rnd)
                                     ELSE @]]))

\* a resetPuzzle that copies the visible board
resetPuzzleFromVisible(st, variant, queued, rnd) ==
    resetPuzzleFrom(st, variant, queued, rnd, st.app.board)

\* resetPuzzle() of a render in blind or multi-move mode (queued), rnd being
\* the outcome of Math.random
resetPuzzle(st, variant, queued, rnd) ==
    resetPuzzleFrom(st, variant, queued, rnd, st.app.startBoard)

\* newDeterministicPuzzleForSize(n): src/ui/src/App.jsx generates the
\* sequence of the size without a salt, src/unnamed/part_000 with the salt
\* of the session's next New
newDeterministicPuzzleWithSalt(st, variant, version, n, rnd, nextSalt) ==
    Then(buildTileBoard(st.heap, n, solvedLetters(n)), LAMBDA fresh :
    Then(generateDeterministicSequence(version, n, NoCount, Salt(nextSalt)), LAMBDA seq :
    Then(shuffledBoards(fresh.heap, fresh.ref, seq), LAMBDA made :
    [st EXCEPT !.heap = made.heap,
               !.app = [@ EXCEPT !.shuffleSeq = seq,
                                 !.startBoard = made.startBoard,
                                 !.board = made.board,
                                 !.committedBoard = made.committedBoard,
                                 !.moveCount = 0,
                                 !.outOfMoves = FALSE,
                                 !.solvedVisible = FALSE,
                                 !.limitVisible = FALSE,
                                 !.moveQueue = <<>>,
                                 !.predictionFeedback = "null",
                                 !.consecutiveWrong = 0,
                                 !.newSaltCounter = nextSalt,
                                 !.predictionTarget =
                                     IF variant = "queued"
                                        /\ (st.app.blindMode \/ st.app.multiMoveMode)
                                     THEN pickPredictionTarget(made.board, rnd)
                                     ELSE <<>>]])))

\* a New that uses the salt of the New before it
newDeterministicPuzzleSameSalt(st, variant, version, n, rnd) ==
    newDeterministicPuzzleWithSalt(st, variant, version, n, rnd,
        IF variant = "queued" THEN 0 ELSE st.app.newSaltCounter)

\* newDeterministicPuzzleForSize(n)
newDeterministicPuzzleForSize(st, variant, version, n, rnd) ==
    newDeterministicPuzzleWithSalt(st, variant, version, n, rnd,
        IF variant = "queued" THEN 0 ELSE st.app.newSaltCounter + 1)

\* advanceLevel() of the render with closure c
advanceLevel(st, c, version, rnd) ==
    IF ~c.progressive THEN st
    ELSE IF c.levelIndex + 1 >= Len(levelSizes)
    THEN [st EXCEPT !.app.solvedMessage = "All levels complete!",
                    !.app.solvedVisible = TRUE]
    ELSE Then(startLevel(st.heap, [st.app EXCEPT !.levelIndex = c.levelIndex + 1],
                         version, levelSizes[c.levelIndex + 2],
                         c.blindMode \/ c.multiMoveMode, rnd), LAMBDA lvl :
         [st EXCEPT !.heap = lvl.heap, !.app = lvl.app])

\* onSolvedReset() and onLimitRetry()
onSolvedReset(st, variant, rnd) ==
    [resetPuzzle(st, variant, st.app.blindMode \/ st.app.multiMoveMode, rnd)
        EXCEPT !.app.solvedVisible = FALSE]

onLimitRetry(st, variant, rnd) ==
    [resetPuzzle(st, variant, st.app.blindMode \/ st.app.multiMoveMode, rnd)
        EXCEPT !.app.limitVisible = FALSE]

\* onNew() and onSolvedNew()
onNew(st, variant, version, rnd) ==
    newDeterministicPuzzleForSize(st, variant, version, st.app.size, rnd)

onSolvedNew(st, variant, version, rnd) ==
    [newDeterministicPuzzleForSize(st, variant, version, st.app.size, rnd)
        EXCEPT !.app.solvedVisible = FALSE]

\* onLimitRestart()
onLimitRestart(st, version, rnd) ==
    Then(startLevel(st.heap, [st.app EXCEPT !.progressive = TRUE, !.levelIndex = 0,
                                            !.limitVisible = FALSE],
                    version, levelSizes[1],
                    st.app.blindMode \/ st.app.multiMoveMode, rnd), LAMBDA lvl :
    [st EXCEPT !.heap = lvl.heap, !.app = lvl.app])

\* toggleBlind() and toggleMultiMove(): resetPuzzle is the one of the render
\* that drew the button
toggleBlind(st, rnd) ==
    [resetPuzzle(st, "queued", st.app.blindMode \/ st.app.multiMoveMode, rnd)
        EXCEPT !.app.blindMode = ~st.app.blindMode]

\* a toggleMultiMove that leaves the puzzle as it is
toggleMultiMoveOnly(st, rnd) == [st EXCEPT !.app.multiMoveMode = ~@]

toggleMultiMove(st, rnd) ==
    [resetPuzzle(st, "queued", st.app.blindMode \/ st.app.multiMoveMode, rnd)
        EXCEPT !.app.multiMoveMode = ~st.app.multiMoveMode]

\* the callback of a timer t
timeout(st, t, version, rnd) ==
    CASE t.kind = "animationEnd" -> [st EXCEPT !.app.animating = FALSE]
      [] t.kind = "moveEnd" ->
            checkSolved([st EXCEPT !.app.animating = FALSE], t.closure, t.next)
      [] t.kind = "advance" -> advanceLevel(st, t.closure, version, rnd)

(***************************************************************************)
(* The objects no variable of the page reaches any more are the garbage    *)
(* collector's: the heap keeps the rows and tiles reachable from the       *)
(* boards of the state and of the pending callbacks, numbered in the order *)
(* they are reached.                                                       *)
(***************************************************************************)
\* the references of the arrays arrs[lo..hi], elements before negative keys
RECURSIVE refsOf(_, _, _)
refsOf(arrs, lo, hi) ==
    IF lo > hi THEN <<>>
    ELSE IF lo = hi THEN arrs[lo].items \o arrs[lo].neg
    ELSE Then(refsOf(arrs, lo, (lo + hi) \div 2), LAMBDA half :
              half \o refsOf(arrs, (lo + hi) \div 2 + 1, hi))

\* acc followed by the references of refs[lo..hi] it does not hold yet
RECURSIVE reached(_, _, _, _)
reached(acc, refs, lo, hi) ==
    IF lo > hi THEN acc
    ELSE IF lo = hi
    THEN IF refs[lo] = Undefined \/ \E k \in 1..Len(acc) : acc[k] = refs[lo]
         THEN acc ELSE Append(acc, refs[lo])
    ELSE Then(reached(acc, refs, lo, (lo + hi) \div 2), LAMBDA half :
              reached(half, refs, (lo + hi) \div 2 + 1, hi))

\* the new name of the reference x: its place in order
renamed(order, x) ==
    IF x = Undefined THEN Undefined ELSE CHOOSE k \in 1..Len(order) : order[k] = x

renamedArray(order, arr) ==
    [items |-> [i \in 1..Len(arr.items) |-> renamed(order, arr.items[i])],
     neg   |-> [i \in 1..Len(arr.neg) |-> renamed(order, arr.neg[i])]]

\* the heap H of the boards roots: [heap, roots]
collect(H, roots) ==
    Then(refsOf(roots, 1, Len(roots)), LAMBDA rowRefs :
    Then(reached(<<>>, rowRefs, 1, Len(rowRefs)), LAMBDA rowOrder :
    Then([k \in 1..Len(rowOrder) |-> H.rows[rowOrder[k]]], LAMBDA rows :
    Then(refsOf(rows, 1, Len(rows)), LAMBDA tileRefs :
    Then(reached(<<>>, tileRefs, 1, Len(tileRefs)), LAMBDA tileOrder :
    [heap  |-> [rows  |-> [k \in 1..Len(rows) |-> renamedArray(tileOrder, rows[k])],
                tiles |-> [k \in 1..Len(tileOrder) |-> H.tiles[tileOrder[k]]]],
     roots |-> [k \in 1..Len(roots) |-> renamedArray(rowOrder, roots[k])]])))))

\* the state st = [heap, app, timers] a handler of the controller variant
\* leaves: src/unnamed/part_000 has no committedBoard
rendered(st, variant) ==
    Then(<<st.app.startBoard, st.app.board,
           IF variant = "queued" THEN st.app.committedBoard ELSE EmptyArray>>
         \o [i \in 1..Len(st.timers) |-> st.timers[i].next], LAMBDA roots :
    Then(collect(st.heap, roots), LAMBDA kept :
    [heap   |-> kept.heap,
     app    |-> [st.app EXCEPT !.startBoard = kept.roots[1],
                               !.board = kept.roots[2],
                               !.committedBoard = kept.roots[3]],
     timers |-> [i \in 1..Len(st.timers) |->
                    [st.timers[i] EXCEPT !.next = kept.roots[3 + i]]]]))

(***************************************************************************)
(* A session: the page is mounted, then the player drags, clicks and types *)
(* while the pending callbacks run.                                        *)
(***************************************************************************)
\* the version parameter of a session: 200368586767
PlayVersion == <<50, 48, 48, 51, 54, 56, 53, 56, 54, 55, 54, 55>>

\* a share link to a board of the smallest size one move from solved
PlayLink ==
    [payload |-> [size |-> MinSize,
                  seq |-> <<[type |-> "row", index |-> 1, direction |-> "right"]>>],
     sep |-> <<>>, cut |-> 0]

\* the URLs of the sessions: the levels, and a single puzzle
PlayPages ==
    {[Page(<<>>, NoLink, <<>>) EXCEPT !.query.version = PlayVersion],
     Page(SizeText(MinSize), PlayLink, <<>>)}

\* the moves the player drags on a board of side n: the first row to the
\* left on the smallest board and on the first level and to the right on the
\* smallest board, the first column up on the levels and down on the levels
\* after the first
PlayMoves(n) ==
    {m \in {[type |-> "row", index |-> 1, direction |-> "left"]} :
        n \in {MinSize, levelSizes[1]}}
    \cup
    {m \in {[type |-> "row", index |-> 1, direction |-> "right"]} : n = MinSize}
    \cup
    {m \in {[type |-> "column", index |-> 1, direction |-> "up"]} :
        n >= levelSizes[1]}
    \cup
    {m \in {[type |-> "column", index |-> 1, direction |-> "down"]} :
        n > levelSizes[1]}

\* the texts the player types in the prediction field: the last cell, or
\* nothing
PredictionTexts(n) == {<<>>, PredictionText(n, n)}

\* the page mounted by the controller variant
InitPlay ==
    /\ \E page \in PlayPages, variant \in {"queued", "single"} :
        /\ query = page.query
        /\ link = page.link
        /\ VERSION = IF getVersionFromQuery(page.query) # <<>>
                     THEN getVersionFromQuery(page.query)
                     ELSE makeVersionNow(CHOOSE d \in Clocks : d.minutes = 0)
        /\ play = [NoPlay EXCEPT !.variant = variant]
        /\ \E m \in {mountEffect(useStateInit.heap, useStateInit.app,
                                 VERSION, page.query)} :
           \E st \in {rendered([heap |-> m.heap, app |-> m.app, timers |-> <<>>],
                               variant)} :
                /\ heap = st.heap
                /\ app = st.app
                /\ timers = st.timers
                /\ trace = m.trace
    /\ board = EmptyArray
    /\ copy = EmptyArray
    /\ hist = <<>>
    /\ solved = [board |-> FALSE, copy |-> FALSE]
    /\ prevCall = NoCall
    /\ lastCall = NoCall

\* the state the handlers run on
Page0 == [heap |-> heap, app |-> app, timers |-> timers]

\* the handler or callback named last ran, given move, and left st
Rendered(last, move, st) ==
    /\ \E r \in {rendered(st, play.variant)} :
        /\ heap' = r.heap
        /\ app' = r.app
        /\ timers' = r.timers
    /\ play' = [play EXCEPT !.last = last, !.move = move]
    /\ UNCHANGED <<link, query, trace, board, copy, hist, solved, shuffleVars>>

\* the player may act: the model lets MaxTimers callbacks be pending
MayAct == Len(timers) < MaxTimers

\* a drag on the board ends: onCommitMove(move)
Drag ==
    /\ MayAct
    /\ Len(app.moveQueue) < MaxQueue
    /\ app.moveCount < MaxPlayed \/ app.limitMoves <= MaxLimit
    /\ (app.blindMode \/ app.multiMoveMode) => app.levelIndex < MaxQueuedLevels
    /\ \E move \in PlayMoves(app.size) :
        Rendered("performMove", <<move>>, performMove(Page0, play.variant, move))

\* setPredictionInput(e.target.value)
setPredictionInput(st, text) ==
    IF st.app.predictionTarget # <<>> THEN [st EXCEPT !.app.predictionInput = text]
    ELSE st

\* the player types in the prediction field, when it is drawn, and clicks
\* Submit Moves, which is drawn in blind or multi-move mode and enabled when
\* the queue holds a move
Submit ==
    /\ MayAct
    /\ play.variant = "queued"
    /\ app.blindMode \/ app.multiMoveMode
    /\ app.moveQueue # <<>>
    /\ \E rnd \in RandomCells(app.size), text \in PredictionTexts(app.size) :
        /\ text = <<>> => app.consecutiveWrong < MaxWrong
        /\ Rendered("submitMoves", <<>>,
                 submitMoves(setPredictionInput(Page0, text), rnd))

\* a click on New
ClickNew ==
    /\ MayAct
    /\ app.newSaltCounter < MaxNews
    /\ \E rnd \in RandomCells(app.size) :
        Rendered("onNew", <<>>, onNew(Page0, play.variant, VERSION, rnd))

\* the buttons of the solved overlay
ClickSolvedReset ==
    /\ MayAct
    /\ app.solvedVisible
    /\ \E rnd \in RandomCells(app.size) :
        Rendered("onSolvedReset", <<>>, onSolvedReset(Page0, play.variant, rnd))

ClickSolvedNew ==
    /\ MayAct
    /\ app.solvedVisible
    /\ app.newSaltCounter < MaxNews
    /\ \E rnd \in RandomCells(app.size) :
        Rendered("onSolvedNew", <<>>, onSolvedNew(Page0, play.variant, VERSION, rnd))

\* the buttons of the limit overlay
ClickLimitRetry ==
    /\ MayAct
    /\ app.limitVisible
    /\ \E rnd \in RandomCells(app.size) :
        Rendered("onLimitRetry", <<>>, onLimitRetry(Page0, play.variant, rnd))

ClickLimitRestart ==
    /\ MayAct
    /\ app.limitVisible
    /\ \E rnd \in RandomCells(levelSizes[1]) :
        Rendered("onLimitRestart", <<>>, onLimitRestart(Page0, VERSION, rnd))

\* the mode buttons of src/ui/src/App.jsx
ClickBlind ==
    /\ MayAct
    /\ play.variant = "queued"
    /\ \E rnd \in RandomCells(app.size) :
        Rendered("toggleBlind", <<>>, toggleBlind(Page0, rnd))

ClickMultiMove ==
    /\ MayAct
    /\ play.variant = "queued"
    /\ \E rnd \in RandomCells(app.size) :
        Rendered("toggleMultiMove", <<>>, toggleMultiMove(Page0, rnd))

\* the timers that may be the next to fire: a timer set earlier with a delay
\* that is not longer fires first
Due == {i \in 1..Len(timers) :
           \A j \in 1..(i - 1) : timers[j].delay > timers[i].delay}

\* timers without its i-th
without(i) == [k \in 1..(Len(timers) - 1) |-> IF k < i THEN timers[k] ELSE timers[k + 1]]

\* a pending callback runs
Timeout ==
    \E i \in Due :
        \E rnd \in RandomCells(IF timers[i].kind = "advance"
                                  /\ timers[i].closure.levelIndex + 2 <= Len(levelSizes)
                               THEN levelSizes[timers[i].closure.levelIndex + 2]
                               ELSE app.size) :
            Rendered(timers[i].kind, <<>>,
                     timeout([Page0 EXCEPT !.timers = without(i)], timers[i],
                             VERSION, rnd))

NextPlay ==
    \/ Drag
    \/ Submit
    \/ ClickNew
    \/ ClickSolvedReset
    \/ ClickSolvedNew
    \/ ClickLimitRetry
    \/ ClickLimitRestart
    \/ ClickBlind
    \/ ClickMultiMove
    \/ Timeout

\* the browser runs every callback it was given
SpecPlay == InitPlay /\ [][NextPlay]_vars /\ WF_vars(Timeout)

(***************************************************************************)
(* Properties of the move engine.                                          *)
(***************************************************************************)
HasLast == hist # <<>>

Last == hist[Len(hist)]

Side == jsLength(board)

Cells(n) == (0..(n - 1)) \X (0..(n - 1))

\* the one-step cyclic rotation of the line move addresses in grid g of side n
Rotated(g, move, n) ==
    LET i == move.index - 1
    IN [r \in 0..(n - 1) |-> [c \in 0..(n - 1) |->
          IF move.type = "row" /\ r = i
          THEN IF move.direction = "left" THEN g[r][(c + 1) % n]
               ELSE g[r][(c + n - 1) % n]
          ELSE IF move.type = "column" /\ c = i
          THEN IF move.direction = "up" THEN g[(r + 1) % n][c]
               ELSE g[(r + n - 1) % n][c]
          ELSE g[r][c]]]

Inverse(move) ==
    [move EXCEPT !.direction =
        CASE move.direction = "left"  -> "right"
          [] move.direction = "right" -> "left"
          [] move.direction = "up"    -> "down"
          [] move.direction = "down"  -> "up"]

\* the rotations of the moves of seq one after the other, from the first
RECURSIVE RotatedAll(_, _, _)
RotatedAll(g, seq, n) ==
    IF ~Evaluated(g) \/ seq = <<>> THEN g
    ELSE IF Len(seq) = 1 THEN Rotated(g, seq[1], n)
    ELSE LET k == Len(seq) \div 2
         IN RotatedAll(RotatedAll(g, SubSeq(seq, 1, k), n), SubSeq(seq, k + 1, Len(seq)), n)

\* C1: a valid move returns normally and leaves the board equal to the board
\* before it with the addressed line rotated by one step (row left: the tile of
\* column c+1 comes to column c and the tile of column 0 to column n-1; right
\* the reverse; up and down the same along the column) and every other cell
\* as it was.
C1_MoveIsRotation ==
    (HasLast /\ Last.op = "applyMove" /\ Last.move \in ValidMoves(Side))
    => /\ ~Last.threw
       /\ GridOf(heap, Ref(Last.target)) = Rotated(Last.before, Last.move, Side)

C1_Witness ==
    /\ Len(hist) = 3
    /\ Side = 3
    /\ \A i \in 1..3 : hist[i].op = "applyMove" /\ hist[i].target = "board"
    /\ hist[1].move = [type |-> "row", index |-> 2, direction |-> "right"]
    /\ hist[2].move = [type |-> "column", index |-> 3, direction |-> "down"]
    /\ hist[3].move = [type |-> "row", index |-> 3, direction |-> "left"]
    /\ GridOf(heap, board)[2][2] = Last.before[2][0]
    /\ GridOf(heap, board)[2][0] = Last.before[2][1]
    /\ GridOf(heap, board) # Last.before

\* C2: a valid move followed by the move of the same line in the opposite
\* direction leaves the board equal, cell by cell (id and letter), to the
\* board before the first of the two.
C2_InverseRestores ==
    (/\ Len(hist) >= 2
     /\ Last.op = "applyMove"
     /\ hist[Len(hist) - 1].op = "applyMove"
     /\ hist[Len(hist) - 1].target = Last.target
     /\ hist[Len(hist) - 1].move \in ValidMoves(Side)
     /\ Last.move = Inverse(hist[Len(hist) - 1].move))
    => GridOf(heap, Ref(Last.target)) = hist[Len(hist) - 1].before

C2_Witness ==
    /\ Len(hist) = 3
    /\ Side = 3
    /\ \A i \in 1..3 : hist[i].op = "applyMove" /\ hist[i].target = "board"
    /\ hist[2].move = [type |-> "column", index |-> 1, direction |-> "up"]
    /\ hist[3].move = [type |-> "column", index |-> 1, direction |-> "down"]
    /\ hist[1].move.type = "row"
    /\ hist[2].before # hist[3].before
    /\ GridOf(heap, board) = hist[2].before

\* C3: a malformed move (a type that is not row or column, a direction that
\* does not belong to the type, an index outside 1..N) leaves the board as it
\* was, cell for cell and N x N.
C3_MalformedLeavesBoard ==
    (HasLast /\ Last.op = "applyMove" /\ Last.move \in MalformedMoves(Side))
    => GridOf(heap, board) = Last.before

\* C4: applyMove signals an error to its caller for every malformed move.
C4_MalformedSignalled ==
    (HasLast /\ Last.op = "applyMove" /\ Last.move \in MalformedMoves(Side))
    => Last.threw

\* C5: applySequence is all-or-nothing: with a malformed move anywhere in the
\* sequence the board is left as it was, and otherwise every move is applied.
C5_SequenceAllOrNothing ==
    (HasLast /\ Last.op = "applySequence")
    => IF \E i \in 1..Len(Last.seq) : Last.seq[i] \in MalformedMoves(Side)
       THEN GridOf(heap, board) = Last.before
       ELSE GridOf(heap, board) = RotatedAll(Last.before, Last.seq, Side)

\* C6: the board built from the canonical letters of its size is solved, for
\* every size 2..12.
C6_FreshBoardSolved ==
    hist = <<>> => solved.board

C6_Witness ==
    /\ hist = <<>>
    /\ solved.board
    /\ Side = MaxSize

\* C7: isSolved answers true exactly when every tile of every row r holds the
\* letter of row r, whatever the ids of the tiles are.
C7_SolvedIffCanonical ==
    \A t \in Targets :
        solved[t] <=> \A rc \in Cells(Side) :
                         GridOf(heap, Ref(t))[rc[1]][rc[2]].letter = 65 + rc[1]

\* a solved board whose ids are no longer in row-major order, beside a copy
\* with one column shifted, which is not solved
C7_Witness ==
    /\ Side = 3
    /\ Len(hist) = 3
    /\ solved.board
    /\ GridOf(heap, board)[0][0].id = 2
    /\ copy # EmptyArray
    /\ ~solved.copy
    /\ Cardinality({rc \in Cells(Side) :
                      GridOf(heap, copy)[rc[1]][rc[2]].letter # 65 + rc[1]}) = 3

\* C8: a built board holds the ids 1..N^2 in row-major order; after any valid
\* moves every id 1..N^2 is on the board exactly once, every tile has the
\* letter it was built with, and every letter is on the board N times.
C8_TilesConserved ==
    /\ hist = <<>>
       => \A rc \in Cells(Side) :
             GridOf(heap, board)[rc[1]][rc[2]].id = rc[1] * Side + rc[2] + 1
    /\ \A t \in Targets :
          LET g == GridOf(heap, Ref(t))
          IN /\ DOMAIN g = 0..(Side - 1)
             /\ \A r \in 0..(Side - 1) : DOMAIN g[r] = 0..(Side - 1)
             /\ {g[rc[1]][rc[2]].id : rc \in Cells(Side)} = 1..(Side * Side)
             /\ \A rc \in Cells(Side) :
                   g[rc[1]][rc[2]].letter = 65 + ((g[rc[1]][rc[2]].id - 1) \div Side)
             /\ \A r \in 0..(Side - 1) :
                   Cardinality({rc \in Cells(Side) :
                                   g[rc[1]][rc[2]].letter = 65 + r}) = Side

C8_Witness ==
    /\ Len(hist) = 3
    /\ Side = 3
    /\ \A i \in 1..3 : hist[i].op = "applyMove" /\ hist[i].target = "board"
    /\ hist[1].move = [type |-> "row", index |-> 1, direction |-> "left"]
    /\ hist[2].move = [type |-> "column", index |-> 3, direction |-> "up"]
    /\ hist[3].move = [type |-> "row", index |-> 3, direction |-> "left"]
    /\ GridOf(heap, board)[2][2].id = 7
    /\ GridOf(heap, board)[0][2].id = 6

RowsOf(b) == {Get(b, r) : r \in 0..(jsLength(b) - 1)}

TilesOf(H, b) ==
    UNION {{Get(H.rows[a], c) : c \in 0..(jsLength(H.rows[a]) - 1)} : a \in RowsOf(b)}

\* C9: the copy deepCopyBoard returns is equal to its source and shares no
\* row array and no tile object with it; a move applied to either of the two
\* boards leaves the other one as it was.
C9_CopyIndependent ==
    copy # EmptyArray
    => /\ RowsOf(board) \cap RowsOf(copy) = {}
       /\ TilesOf(heap, board) \cap TilesOf(heap, copy) = {}
       /\ Last.op = "deepCopyBoard"
          => ~Last.threw /\ GridOf(heap, copy) = GridOf(heap, board)
       /\ Last.op = "applyMove"
          => GridOf(heap, Ref(Other(Last.target))) = Last.beforeOther

C9_Witness ==
    /\ Len(hist) = 3
    /\ Side = 3
    /\ hist[1].op = "deepCopyBoard"
    /\ hist[2].op = "applyMove" /\ hist[2].target = "board"
    /\ hist[3].op = "applyMove" /\ hist[3].target = "copy"
    /\ hist[2].move.type = "column"
    /\ hist[3].move.type = "column"
    /\ GridOf(heap, copy) # GridOf(heap, board)
    /\ GridOf(heap, board) = hist[3].beforeOther
    /\ GridOf(heap, copy) # hist[3].before

(***************************************************************************)
(* Properties of the shuffle generator.                                    *)
(***************************************************************************)
\* the calls the state remembers
Calls == {c \in {prevCall, lastCall} : c # NoCall}

CountCalls == {c \in Calls : c.fn = "getDeterministicShuffleCount"}

\* the calls of generateDeterministicSequence that left the count out
DefaultCalls ==
    {c \in Calls : c.fn = "generateDeterministicSequence" /\ c.moves = NoCount}

\* C10: getDeterministicShuffleCount(size) is an integer of [size, 2*size*size],
\* the same at every call for one size and version, and a sequence generated
\* without an explicit count has exactly that many moves whatever its salt:
\* two such sequences have the same length, salted alike or not.
C10_ShuffleCountSaltFree ==
    /\ \A c \in CountCalls :
        /\ c.count \in Int
        /\ c.size <= c.count
        /\ c.count <= 2 * c.size * c.size
    /\ \A c, d \in CountCalls : c.count = d.count
    /\ \A c \in CountCalls : \A g \in DefaultCalls : Len(g.seq) = c.count
    /\ \A g, h \in DefaultCalls : Len(g.seq) = Len(h.seq)

\* two sequences generated for one size with different salts: other moves,
\* same length
C10_Witness ==
    /\ prevCall \in DefaultCalls
    /\ lastCall \in DefaultCalls
    /\ prevCall.salt # lastCall.salt
    /\ prevCall.seq # lastCall.seq
    /\ Len(prevCall.seq) = Len(lastCall.seq)
    /\ Len(lastCall.seq) > lastCall.size

\* the calls of generateDeterministicSequence
GenerateCalls == {c \in Calls : c.fn = "generateDeterministicSequence"}

\* C11: generateDeterministicSequence(size, moves, salt) returns exactly moves
\* moves when a count is given (0 included), and exactly
\* getDeterministicShuffleCount(size) moves when it is left out.
C11_SequenceLength ==
    \A c \in GenerateCalls :
        /\ c.moves # NoCount => Len(c.seq) = c.moves
        /\ c.moves = NoCount =>
               Len(c.seq) = getDeterministicShuffleCount(VERSION, c.size)

\* a sequence of an explicit, positive length after one of the default length
C11_Witness ==
    /\ prevCall \in DefaultCalls
    /\ Len(prevCall.seq) > 1
    /\ lastCall \in GenerateCalls
    /\ lastCall.moves > 0
    /\ Len(lastCall.seq) = lastCall.moves

\* the seed string of the stream generateDeterministicSequence draws from
BenchmarkSeed(c) ==
    BenchmarkPrefix \o VERSION \o Underscore \o StrOfNat(c.size) \o c.salt

\* the first n values of the stream of state a, as numerators over 2^32
RECURSIVE Draws(_, _, _)
Draws(a, n, acc) ==
    IF Evaluated(a) /\ Evaluated(acc) /\ Len(acc) < n
    THEN Draws(mulberry32(a).a, n, Append(acc, mulberry32(a).u))
    ELSE acc

\* the move that three consecutive values u1, u2, u3 / 2^32 of [0, 1) stand
\* for: the type, then the index, then the direction
MoveOfDraws(u1, u2, u3, size) ==
    LET type == <<"row", "column">>[FloorScaled(u1, 2) + 1]
    IN [type      |-> type,
        index     |-> FloorScaled(u2, size) + 1,
        direction |-> IF type = "row"
                      THEN <<"left", "right">>[FloorScaled(u3, 2) + 1]
                      ELSE <<"up", "down">>[FloorScaled(u3, 2) + 1]]

\* the ends and the middle of [0, 1): 0, 1/2 - 1/2^32, 1/2, 1 - 1/2^32
EdgeDraws ==
    {[hi |-> 0, lo |-> 0], [hi |-> 32767, lo |-> 65535],
     [hi |-> 32768, lo |-> 0], [hi |-> 65535, lo |-> 65535]}

\* C12: every generated move is a Move of the requested size (type row or
\* column, index in 1..size, direction left/right for a row and up/down for
\* a column), the i-th move is made of the draws 3i-2 (type), 3i-1 (index)
\* and 3i (direction) of the seeded stream, and the extreme values of [0, 1)
\* give a Move too.
C12_GeneratedMovesValid ==
    \A c \in GenerateCalls :
        LET d == Draws(hash32(BenchmarkSeed(c)), 3 * Len(c.seq), <<>>)
        IN /\ \A i \in 1..Len(c.seq) :
               /\ c.seq[i] \in ValidMoves(c.size)
               /\ c.seq[i] = MoveOfDraws(d[3 * i - 2], d[3 * i - 1], d[3 * i], c.size)
           /\ \A u1, u2, u3 \in EdgeDraws :
               MoveOfDraws(u1, u2, u3, c.size) \in ValidMoves(c.size)

\* a generated sequence with a row move, a column move, the first line and
\* the last line
C12_Witness ==
    /\ lastCall \in GenerateCalls
    /\ \E i, j, k, l \in 1..Len(lastCall.seq) :
        /\ lastCall.seq[i].type = "row"
        /\ lastCall.seq[j].type = "column"
        /\ lastCall.seq[k].index = 1
        /\ lastCall.seq[l].index = lastCall.size

C14_SaltChangesContent ==
    \A c, d \in GenerateCalls :
        (c.size = d.size /\ c.moves = d.moves /\ c.salt # d.salt) =>
            /\ Len(c.seq) = Len(d.seq)
            /\ Len(c.seq) > 0 => c.seq # d.seq

(***************************************************************************)
(* Properties of the share codec and of the startup.                       *)
(***************************************************************************)
\* the page was opened with a link, and its effect took the single-puzzle
\* branch, where JSON.parse(fromBase64Url(p)) runs
Decoding == trace.mounted /\ link # NoLink /\ ~app.progressive

\* the JavaScript value a payload {size, seq} is
MoveValue(m) ==
    [t |-> "object",
     v |-> <<[key |-> Chars("type"), val |-> [t |-> "string", v |-> Chars(m.type)]],
             [key |-> Chars("index"), val |-> [t |-> "number", v |-> m.index]],
             [key |-> Chars("direction"),
              val |-> [t |-> "string", v |-> Chars(m.direction)]]>>]

PayloadValue(pl) ==
    [t |-> "object",
     v |-> <<[key |-> Chars("size"), val |-> [t |-> "number", v |-> pl.size]],
             [key |-> Chars("seq"),
              val |-> [t |-> "array",
                       v |-> [i \in 1..Len(pl.seq) |-> MoveValue(pl.seq[i])]]]>>]

\* the characters a base64url text must not hold: + / =
NotUrlSafe == {43, 47, 61}

\* C15: the p parameter made from a valid payload by toBase64Url of its JSON
\* text holds none of + / =, and JSON.parse(fromBase64Url(p)) does not throw
\* and gives the payload back: the same size and the same moves in order.
C15_ShareRoundTrip ==
    (link # NoLink /\ link.cut = 0 /\ link.payload \in ValidPayloads)
        => /\ \A i \in 1..Len(query.p) : query.p[i] \notin NotUrlSafe
           /\ Decoding => /\ ~trace.decoded.threw
                          /\ trace.decoded.value = PayloadValue(link.payload)

\* a link to a payload of two moves whose base64 text needed padding was
\* decoded
C15_Witness ==
    /\ Decoding
    /\ link.cut = 0
    /\ link.payload \in ValidPayloads
    /\ Len(link.payload.seq) = 2
    /\ Len(query.p) % 4 # 0
    /\ ~trace.decoded.threw

\* the payload of the link is outside the SharePayload domains
BadPayload == link.payload \in BadMovePayloads \cup BadSizePayloads

\* the size asked by the URL, as the effect reads it
RequestedSize == parseQuery(query).size

\* C16: a payload whose size is outside 2..12 or that holds a move outside
\* the Move domains is a decode failure: its move list is never handed to
\* applySequence and never becomes the stored shuffle sequence.
C16_MalformedPayloadRejected ==
    (Decoding /\ link.cut = 0 /\ BadPayload)
        => /\ \A i \in 1..Len(trace.applied) : trace.applied[i] # link.payload.seq
           /\ app.shuffleSeq # link.payload.seq

\* the canonical solved board of side n, as a grid of cells
SolvedGrid(n) ==
    [r \in 0..(n - 1) |-> [c \in 0..(n - 1) |-> [id |-> r * n + c + 1, letter |-> 65 + r]]]

\* the link cannot be used: it lost characters, its payload is outside the
\* domains, or its size is not the requested one
Unusable == link.cut > 0 \/ BadPayload \/ link.payload.size # RequestedSize

\* C17: with a malformed or size-mismatched payload the startup ends with
\* the stored sequence being generateDeterministicSequence(requested size)
\* and the start board and the visible board being the solved board with that
\* sequence applied.
C17_FallbackOnBadPayload ==
    (Decoding /\ Unusable)
        => LET n == RequestedSize
               seq == generateDeterministicSequence(VERSION, n, NoCount, <<>>)
               shuffled == RotatedAll(SolvedGrid(n), seq, n)
           IN /\ app.shuffleSeq = seq
              /\ GridOf(heap, app.startBoard) = shuffled
              /\ GridOf(heap, app.board) = shuffled

Generated == trace.mounted /\ trace.branch \in {"level", "generated"}

\* C19: a generated shuffle of C > 0 moves applied to the solved 3 x 3 board
\* gives a board that isSolved rejects and that differs from the solved board
\* in at least one tile.
C19_ShuffleUnsolves ==
    (Generated /\ app.size = 3 /\ Len(app.shuffleSeq) > 0)
        => /\ ~isSolved(heap, app.startBoard)
           /\ GridOf(heap, app.startBoard) # SolvedGrid(3)

(***************************************************************************)
(* Properties of the hash.                                                 *)
(***************************************************************************)
\* the seed strings hashed by a call
SeedsOf(c) ==
    (IF c.fn = "getDeterministicShuffleCount"
        \/ (c.fn = "generateDeterministicSequence" /\ c.moves = NoCount)
     THEN {ShuffleCountPrefix \o VERSION \o Underscore \o StrOfNat(c.size)}
     ELSE {})
    \cup
    (IF c.fn = "generateDeterministicSequence" THEN {BenchmarkSeed(c)} ELSE {})

\* one step of the recurrence on integers: h * 33 as the number
\* high * 2^16 + low (high is not reduced), the character xored into its low
\* bits bit by bit, and the reduction modulo 2^32; wrapped tells whether
\* h * 33 reached 2^32
RecurrenceStep(h, ch) ==
    LET low == h.lo * 33
        high == h.hi * 33 + (low \div Half)
    IN [hi |-> high % Half, lo |-> XorBits(low % Half, ch), wrapped |-> high >= Half]

\* the values of the recurrence from 5381: acc[k + 1] is the value after k
\* characters of str
RECURSIVE Recurrence(_, _)
Recurrence(str, acc) ==
    IF Len(acc) > Len(str) THEN acc
    ELSE Recurrence(str, Append(acc, RecurrenceStep(acc[Len(acc)], str[Len(acc)])))

RecurrenceOf(str) == Recurrence(str, <<[hi |-> 0, lo |-> 5381, wrapped |-> FALSE]>>)

\* C20: for every seed string hashed by the last call, the value of hash32
\* after each character (hash32 of each prefix) and its result lie in
\* 0..2^32-1 and equal h := ((h * 33) XOR charCode) mod 2^32 computed on
\* integers from h = 5381.
C20_Hash32Recurrence ==
    \A str \in SeedsOf(lastCall) :
        \A k \in 0..Len(str) :
            LET h == hash32(SubSeq(str, 1, k))
                ref == RecurrenceOf(str)[k + 1]
            IN /\ h.hi \in 0..(Half - 1)
               /\ h.lo \in 0..(Half - 1)
               /\ h.hi = ref.hi
               /\ h.lo = ref.lo

\* the two seeds of a call without count were hashed; for one of them
\* h * 33 passed 2^32 on the way and the result is above 2^31
C20_Witness ==
    /\ lastCall.fn = "generateDeterministicSequence"
    /\ lastCall.moves = NoCount
    /\ Cardinality(SeedsOf(lastCall)) = 2
    /\ \E str \in SeedsOf(lastCall) :
        LET ref == RecurrenceOf(str)
        IN /\ \E k \in 1..Len(ref) : ref[k].wrapped
           /\ ref[Len(ref)].hi >= 32768
           /\ hash32(str).hi = ref[Len(ref)].hi

(***************************************************************************)
(* Properties of the query.                                                *)
(***************************************************************************)
\* the text is a decimal integer: digits, with or without a minus sign
IsNumber(str) ==
    /\ str # <<>>
    /\ LET ds == IF str[1] = 45 THEN Tail(str) ELSE str
       IN ds # <<>> /\ \A i \in 1..Len(ds) : ds[i] \in 48..57

NumberOf(str) == IF str[1] = 45 THEN 0 - NatOfStr(Tail(str)) ELSE NatOfStr(str)

\* v clamped into [MinSize, MaxSize]
Clamped(v) == IF v < MinSize THEN MinSize ELSE IF v > MaxSize THEN MaxSize ELSE v

\* C21: the size parseQuery reads is an integer in 2..12: 6 when the size
\* parameter is absent, the given number clamped into [2, 12] when it is a
\* number, and the default 6 when it is not a number.
C21_QuerySize ==
    trace.mounted
        => /\ RequestedSize \in MinSize..MaxSize
           /\ query.size = <<>> => RequestedSize = 6
           /\ IsNumber(query.size) => RequestedSize = Clamped(NumberOf(query.size))
           /\ (query.size # <<>> /\ ~IsNumber(query.size)) => RequestedSize = 6

(***************************************************************************)
(* Properties of the controller.                                           *)
(***************************************************************************)
\* a move was accepted and its animation timer has not fired yet
InFlight ==
    \E i \in 1..Len(timers) : timers[i].kind \in {"animationEnd", "moveEnd"}

\* the step left the visible board, the committed board, the move count and
\* the queue as they were
SameGame ==
    /\ GridOf(heap', app'.board) = GridOf(heap, app.board)
    /\ GridOf(heap', app'.committedBoard) = GridOf(heap, app.committedBoard)
    /\ app'.moveCount = app.moveCount
    /\ app'.moveQueue = app.moveQueue

\* C22: from the moment a move is accepted until its animation timer has
\* fired, no performMove and no submitMoves changes the board, the committed
\* board, the move count or the move queue.
C22_MovesSerialized ==
    [][(InFlight /\ play'.last \in {"performMove", "submitMoves"}) => SameGame]_vars

\* C23: submitMoves with a non-empty queue makes, in one step, the committed
\* board the previous committed board with every queued move applied in
\* queue order, the visible board equal to the new committed board, the move
\* count larger by the queue length and the queue empty; with an empty queue
\* it changes nothing.
C23_SubmitAtomic ==
    [][/\ app.moveQueue = <<>> =>
            \A rnd \in RandomCells(app.size) : submitMoves(Page0, rnd) = Page0
       /\ play'.last = "submitMoves" =>
            /\ app.moveQueue # <<>>
            /\ GridOf(heap', app'.committedBoard)
                   = RotatedAll(GridOf(heap, app.committedBoard), app.moveQueue, app.size)
            /\ GridOf(heap', app'.board) = GridOf(heap', app'.committedBoard)
            /\ app'.moveCount = app.moveCount + Len(app.moveQueue)
            /\ app'.moveQueue = <<>>]_vars

\* a submit of two moves that do not commute, shown before in multi-move mode
C23_Witness ==
    /\ play.last = "submitMoves"
    /\ app.multiMoveMode /\ ~app.blindMode
    /\ app.size = levelSizes[1]
    /\ app.moveCount = 2
    /\ GridOf(heap, app.committedBoard)
           = RotatedAll(GridOf(heap, app.startBoard),
                        <<[type |-> "row", index |-> 1, direction |-> "left"],
                          [type |-> "column", index |-> 1, direction |-> "up"]>>, app.size)
    /\ GridOf(heap, app.committedBoard)
           # RotatedAll(GridOf(heap, app.startBoard),
                        <<[type |-> "column", index |-> 1, direction |-> "up"],
                          [type |-> "row", index |-> 1, direction |-> "left"]>>, app.size)

\* C24: a progressive session plays the sizes 3, 4, 5, 6 in this order: the
\* size is the one of the level index, an advance from a level before the
\* last starts the next level (its index, its size, move count 0), none is
\* skipped or repeated, and an advance from the last level leaves the index.
C24_LevelsInOrder ==
    [][/\ app.progressive => app.size = levelSizes[app.levelIndex + 1]
       /\ play'.last = "advance" =>
            IF app.levelIndex + 1 < Len(levelSizes)
            THEN /\ app'.levelIndex = app.levelIndex + 1
                 /\ app'.size = levelSizes[app'.levelIndex + 1]
                 /\ app'.moveCount = 0
            ELSE app'.levelIndex = app.levelIndex]_vars

\* C25: whenever a p parameter is provided at startup the session is a
\* single puzzle: progressive is false and the level index stays 0, so that
\* no solve starts another level.
C25_LinkIsSinglePuzzle ==
    (trace.mounted /\ query.p # <<>>) => (~app.progressive /\ app.levelIndex = 0)

\* the handlers that call resetPuzzle
Resets == {"onSolvedReset", "onLimitRetry", "toggleBlind", "toggleMultiMove"}

\* the handlers and callbacks that set a puzzle
Starts == {"onNew", "onSolvedNew", "onLimitRestart", "advance"}

\* C26: after resetPuzzle the visible board (and the committed board of the
\* queued controller) equals the start board, the move count is 0,
\* outOfMoves is false and the queue is empty; and no player move, submit or
\* reset changes the start board: only a new puzzle or a level start does.
C26_ResetRestoresStart ==
    [][/\ play'.last \in Resets =>
            /\ GridOf(heap', app'.board) = GridOf(heap', app'.startBoard)
            /\ play.variant = "queued" =>
                   GridOf(heap', app'.committedBoard) = GridOf(heap', app'.startBoard)
            /\ app'.moveCount = 0
            /\ ~app'.outOfMoves
            /\ app'.moveQueue = <<>>
       /\ play'.last \notin Starts =>
            GridOf(heap', app'.startBoard) = GridOf(heap, app.startBoard)]_vars

\* Retry on the out-of-moves overlay, after moves that changed the board
C26_Witness ==
    /\ play.last = "onLimitRetry"
    /\ app.moveCount = 0 /\ ~app.outOfMoves /\ ~app.limitVisible
    /\ GridOf(heap, app.board) = GridOf(heap, app.startBoard)
    /\ jsLength(app.board) = app.size

\* the step left the visible board as it was
SameBoard == GridOf(heap', app'.board) = GridOf(heap, app.board)

\* C27: in the single-move controller moveCount <= limitMoves in every
\* state; a move proposed when moveCount >= limitMoves leaves the board and
\* the move count unchanged and sets outOfMoves, and once outOfMoves is set
\* no proposal changes the board.
C27_LimitEnforced ==
    [][play.variant = "single" =>
         /\ app.moveCount <= app.limitMoves
         /\ (play'.last = "performMove" /\ app.moveCount >= app.limitMoves) =>
                (SameBoard /\ app'.moveCount = app.moveCount /\ app'.outOfMoves)
         /\ (play'.last = "performMove" /\ app.outOfMoves) => SameBoard]_vars

\* C27, amended: the proposal sets outOfMoves when no move is animating; a
\* proposal made during the animation of the last move changes nothing.
C27_LimitEnforcedWhenIdle ==
    [][play.variant = "single" =>
         /\ app.moveCount <= app.limitMoves
         /\ (play'.last = "performMove" /\ app.moveCount >= app.limitMoves) =>
                /\ SameBoard
                /\ app'.moveCount = app.moveCount
                /\ IF app.animating THEN app'.outOfMoves = app.outOfMoves
                   ELSE app'.outOfMoves
         /\ (play'.last = "performMove" /\ app.outOfMoves) => SameBoard]_vars

\* the proposal after the last move of the limit was rejected
C27_Witness ==
    /\ play.variant = "single"
    /\ play.last = "performMove"
    /\ app.moveCount = app.limitMoves
    /\ app.outOfMoves /\ app.limitVisible
    /\ ~app.animating

\* C28: in the queued controller moveCount <= limitMoves in every reachable
\* state, also after submitMoves added a queue to a move count below the
\* limit.
C28_QueuedLimit ==
    play.variant = "queued" => app.moveCount <= app.limitMoves

\* the authoritative board of the controller: the committed board of the
\* queued controller, the board of the single-move controller
Authoritative(H, a) ==
    GridOf(H, IF play.variant = "queued" THEN a.committedBoard ELSE a.board)

\* performMove returns at once
Rejected == app.animating \/ app.outOfMoves \/ app.moveCount >= app.limitMoves

\* performMove queues the move
Queues == play.variant = "queued" /\ (app.blindMode \/ app.multiMoveMode)

\* C29: the move count is the number of moves applied to the authoritative
\* board since the puzzle was set: an accepted single move applies one move
\* and raises the count by 1, a submit applies the queue and raises it by the
\* queue length, a rejected or queued proposal and a timer change neither,
\* and a reset, a new puzzle and a level start set the count to 0 on the
\* start board.
C29_CountIsMovesApplied ==
    [][/\ play'.last = "performMove" =>
            IF Rejected \/ Queues
            THEN /\ app'.moveCount = app.moveCount
                 /\ Authoritative(heap', app') = Authoritative(heap, app)
            ELSE /\ app'.moveCount = app.moveCount + 1
                 /\ Authoritative(heap', app')
                        = Rotated(Authoritative(heap, app), play'.move[1], app.size)
       /\ play'.last = "submitMoves" =>
            /\ app'.moveCount = app.moveCount + Len(app.moveQueue)
            /\ Authoritative(heap', app')
                   = RotatedAll(Authoritative(heap, app), app.moveQueue, app.size)
       /\ play'.last \in {"animationEnd", "moveEnd"} =>
            /\ app'.moveCount = app.moveCount
            /\ Authoritative(heap', app') = Authoritative(heap, app)
       /\ play'.last \in Resets \cup (Starts \ {"advance"}) =>
            /\ app'.moveCount = 0
            /\ Authoritative(heap', app') = GridOf(heap', app'.startBoard)
       /\ play'.last = "advance" =>
            \/ /\ app'.moveCount = 0
               /\ Authoritative(heap', app') = GridOf(heap', app'.startBoard)
            \/ /\ app'.moveCount = app.moveCount
               /\ Authoritative(heap', app') = Authoritative(heap, app)]_vars

\* a submit of two moves after an accepted single move
C29_Witness ==
    /\ play.last = "submitMoves"
    /\ app.moveCount = 3
    /\ app.moveQueue = <<>>
    /\ GridOf(heap, app.committedBoard) # GridOf(heap, app.startBoard)

\* C30: in the queued controller, in every reachable state: in single-move
\* mode the queue is empty and the visible board equals the committed
\* board; in blind mode the visible board equals the committed board; in
\* non-blind multi-move mode the visible board equals the committed board
\* with the queued moves applied in order.
C30_QueuedConsistent ==
    play.variant = "queued" =>
        IF app.blindMode
        THEN GridOf(heap, app.board) = GridOf(heap, app.committedBoard)
        ELSE IF app.multiMoveMode
        THEN GridOf(heap, app.board)
                 = RotatedAll(GridOf(heap, app.committedBoard), app.moveQueue, app.size)
        ELSE /\ app.moveQueue = <<>>
             /\ GridOf(heap, app.board) = GridOf(heap, app.committedBoard)

\* two moves shown and queued in multi-move mode
C30_Witness ==
    /\ play.variant = "queued"
    /\ app.multiMoveMode /\ ~app.blindMode
    /\ Len(app.moveQueue) = 2
    /\ GridOf(heap, app.board) # GridOf(heap, app.committedBoard)

\* the callback of an advance timer started a level
LevelStarted == play'.last = "advance" /\ ~app'.solvedVisible

\* C31: whenever the advance timer armed by a solve starts the next level,
\* the board displayed at that moment is solved and is the board of the
\* level that was solved: no move, Reset, New or Restart made since the
\* solve lets a level start from an unsolved or replaced board.
C31_AdvanceFromSolved ==
    [][LevelStarted =>
         /\ isSolved(heap, app.board)
         /\ app.levelIndex + 1 = app'.levelIndex
         /\ app.solvedVisible]_vars

\* the board b of the heap H has n rows of n tiles
SquareOf(H, b, n) ==
    /\ jsLength(b) = n
    /\ \A r \in 0..(n - 1) :
        /\ Get(b, r) # Undefined
        /\ jsLength(H.rows[Get(b, r)]) = n
        /\ \A c \in 0..(n - 1) : Get(H.rows[Get(b, r)], c) # Undefined

\* C32: in every reachable state the visible board is a square grid of the
\* controller's size: exactly size rows of exactly size tiles, with size in
\* 2..12, after startup and after every handler and callback.
C32_BoardSquare ==
    /\ app.size \in MinSize..MaxSize
    /\ SquareOf(heap, app.board, app.size)

\* a move made on the second level, which an advance started
C32_Witness ==
    /\ play.last = "performMove"
    /\ app.levelIndex = 1
    /\ app.size = levelSizes[2]
    /\ app.moveCount = 1
    /\ GridOf(heap, app.board) # GridOf(heap, app.startBoard)
    /\ SquareOf(heap, app.board, app.size)

\* the handlers of the New buttons
News == {"onNew", "onSolvedNew"}

\* the start board made of the sequence seq on a board of side n
StartGrid(seq, n) == RotatedAll(SolvedGrid(n), seq, n)

\* C33: New in the queued controller generates without a salt: the start
\* board after New is the start board of the level of that size (in a
\* session of levels, the start board it had).  New in the single-move
\* controller uses a counter that starts at 0, that every New raises by
\* exactly 1 and that nothing else changes: the k-th New of a session uses
\* the salt _salt<k>, and no two News use the same salt.
C33_NewSalts ==
    /\ app.newSaltCounter = 0
    /\ [][/\ (play.variant = "queued" /\ play'.last \in News) =>
                /\ app'.shuffleSeq
                       = generateDeterministicSequence(VERSION, app.size, NoCount, Salt(0))
                /\ GridOf(heap', app'.startBoard) = StartGrid(app'.shuffleSeq, app.size)
                /\ app.progressive =>
                       GridOf(heap', app'.startBoard) = GridOf(heap, app.startBoard)
          /\ (play.variant = "single" /\ play'.last \in News) =>
                /\ app'.newSaltCounter = app.newSaltCounter + 1
                /\ app'.shuffleSeq
                       = generateDeterministicSequence(VERSION, app.size, NoCount,
                                                       Salt(app'.newSaltCounter))
                /\ GridOf(heap', app'.startBoard) = StartGrid(app'.shuffleSeq, app.size)
          /\ play'.last \notin News => app'.newSaltCounter = app.newSaltCounter]_vars

\* the second New of a session of the single-move controller, whose
\* sequence is not the one of the first New
C33_Witness ==
    /\ play.variant = "single"
    /\ play.last \in News
    /\ app.newSaltCounter = 2
    /\ app.shuffleSeq
           = generateDeterministicSequence(VERSION, app.size, NoCount, Salt(2))
    /\ app.shuffleSeq
           # generateDeterministicSequence(VERSION, app.size, NoCount, Salt(1))

\* the last k entries of the history are the same valid move on one board
SameMoves(k) ==
    /\ k >= 1
    /\ Len(hist) >= k
    /\ \A i \in (Len(hist) - k + 1)..Len(hist) :
        /\ hist[i].op = "applyMove"
        /\ hist[i].target = Last.target
        /\ hist[i].move = Last.move
    /\ Last.move \in ValidMoves(Side)

\* the board t after applySequence(t, seq) on the present heap
After(t, seq) == GridOf(applySequence(heap, Ref(t), seq).heap, Ref(t))

\* C34: every valid move has order N on an N x N board: the same move
\* applied N times in a row leaves the board exactly as it was before the
\* first, and applied N-1 times it leaves the board that its inverse applied
\* once to the board before the first leaves.
C34_MoveOrder ==
    /\ SameMoves(Side) =>
           GridOf(heap, Ref(Last.target)) = hist[Len(hist) - Side + 1].before
    /\ SameMoves(Side - 1) =>
           /\ After(Last.target, <<Last.move>>) = hist[Len(hist) - Side + 2].before
           /\ After(Last.target, <<Last.move, Inverse(Last.move)>>)
                  = GridOf(heap, Ref(Last.target))

\* a column of a 3 x 3 board moved down three times: the board is back,
\* after having been another board twice
C34_Witness ==
    /\ Side = 3
    /\ SameMoves(Side)
    /\ Last.move = [type |-> "column", index |-> 2, direction |-> "down"]
    /\ hist[2].before # hist[1].before
    /\ hist[3].before # hist[1].before
    /\ hist[3].before # hist[2].before
    /\ GridOf(heap, Ref(Last.target)) = hist[1].before
    /\ hist[3].before = Rotated(hist[1].before, Inverse(Last.move), Side)

====
